---- MODULE Spec2Model ----
(***************************************************************************)
(* Trace-analysis pipeline of the rag_service: TraceProcessor (redundant   *)
(* frame filtering and re-indexing), StateDiffEngine (created / modified / *)
(* removed variables), ConceptExtractor, KnowledgeRetriever and            *)
(* StepExplainer.generate_step_explanations.                               *)
(*                                                                         *)
(* Python values are tagged records [t, n, items]; Python dicts that hold  *)
(* variables are records [keys, val] (insertion order + mapping); text is  *)
(* a sequence of one-character strings.                                    *)
(***************************************************************************)
EXTENDS Integers, Sequences, FiniteSets, TLC

VARIABLES
    code,             \* TraceProcessor.code_lines: the source lines
    raw_trace,        \* the raw trace handed to process_trace
    level,            \* StepExplainer.level
    hash_order,       \* iteration order of a Python set of names in this process
    pc,               \* position of the running call
    i,                \* number of loop iterations done (process_trace / explanation loop)
    processed_steps,  \* process_trace: processed_steps
    prev_step,        \* process_trace: prev_step (<<>> is None)
    retained,         \* history: raw indices whose iteration appended a step
    diffs,            \* generate_step_explanations: diffs / the diffs argument
    concepts_list,    \* generate_step_explanations: concepts_list
    enriched,         \* generate_step_explanations: enriched
    rlog,             \* history: calls made to the retrieval collaborator
    loop_knowledge,   \* generate_step_explanations: knowledge (of the last iteration)
    trace_processor,  \* StepExplainer.trace_processor: the code lines it holds
    running,          \* the calls of generate_step_explanations running concurrently
    outcome,          \* how the last call ended: "none", "returned", "raised"
    prev_vars,        \* compute_diff: prev_vars (<<>> is None)
    curr_vars,        \* compute_diff: curr_vars
    diff_out,         \* compute_diff: the StateDiff returned
    context_step,     \* get_execution_context: step
    window,           \* get_execution_context: window
    context,          \* get_execution_context: the dictionary returned (<<>> before the call)
    USER_CODE_START,  \* tracer template: USER_CODE_START
    USER_CODE_END,    \* tracer template: USER_CODE_END
    TRACE_DATA,       \* tracer template: TRACE_DATA
    STEP,             \* tracer template: STEP
    CALL_STACK,       \* tracer template: CALL_STACK
    settrace,         \* the trace function installed with sys.settrace (<<>> is None)
    frame_events,     \* the events the traced program gives rise to, over and over
    event_index,      \* the number of events delivered so far
    recorded_from,    \* history: the event each entry of TRACE_DATA was recorded from
    cursors,          \* history: per cursor handed out by get_cursor, how often it was closed
    db_call,          \* the retrieval function running and where it stands (<<>> when none)
    db_log            \* history: how each retrieval call ended

vars == <<code, raw_trace, level, hash_order, pc, i, processed_steps, prev_step,
          retained, diffs, concepts_list, enriched, rlog, loop_knowledge,
          trace_processor, running, outcome, prev_vars, curr_vars, diff_out,
          context_step, window, context,
          USER_CODE_START, USER_CODE_END, TRACE_DATA, STEP, CALL_STACK, settrace,
          frame_events, event_index, recorded_from,
          cursors, db_call, db_log>>

inputVars == <<code, raw_trace, level, hash_order>>
normVars == <<processed_steps, prev_step, retained>>
pipeVars == <<diffs, concepts_list, enriched, rlog, loop_knowledge>>
concVars == <<trace_processor, running>>
diffVars == <<prev_vars, curr_vars, diff_out>>
ctxVars == <<context_step, window, context>>
tracerVars == <<USER_CODE_START, USER_CODE_END, TRACE_DATA, STEP, CALL_STACK, settrace,
                frame_events, event_index, recorded_from>>
dbVars == <<cursors, db_call, db_log>>
serviceVars == <<ctxVars, tracerVars, dbVars>>

-----------------------------------------------------------------------------
(* Bounds of the model *)

MaxTrace == 3

-----------------------------------------------------------------------------
(* Python values *)

Names == {"a", "b", "c"}

NoneV == [t |-> "NoneType", n |-> 0, items |-> <<>>]
IntV(k) == [t |-> "int", n |-> k, items |-> <<>>]
FloatV(k) == [t |-> "float", n |-> k, items |-> <<>>]
BoolV(k) == [t |-> "bool", n |-> k, items |-> <<>>]
StrV(k) == [t |-> "str", n |-> k, items |-> <<>>]
ObjV(k) == [t |-> "object", n |-> k, items |-> <<>>]
ListV(xs) == [t |-> "list", n |-> 0, items |-> xs]
TupleV(xs) == [t |-> "tuple", n |-> 0, items |-> xs]
\* a dict value with the keys k1..kn, in that order
DictV(xs) == [t |-> "dict", n |-> 0, items |-> xs]

\* isinstance(value, (int, float)): bool is a subclass of int
IsNumeric(v) == v.t \in {"int", "float", "bool"}

RECURSIVE PyEq(_, _)
\* Python's == on values: numbers compare by value across int/float/bool, a
\* list never equals a tuple, containers compare element by element.
PyEq(x, y) ==
    IF IsNumeric(x) /\ IsNumeric(y) THEN x.n = y.n
    ELSE IF x.t # y.t THEN FALSE
    ELSE IF x.t \in {"list", "tuple", "dict"}
         THEN /\ Len(x.items) = Len(y.items)
              /\ \A k \in 1..Len(x.items) : PyEq(x.items[k], y.items[k])
    ELSE x.n = y.n

\* str(value) of an opaque object
StrOf(v) == [t |-> "str", n |-> 100 + v.n, items |-> <<>>]

-----------------------------------------------------------------------------
(* Variable snapshots: Python dicts from names to values *)

Range(s) == {s[k] : k \in 1..Len(s)}

EmptyDict == [keys |-> <<>>, val |-> <<>>]

Dict1(k1, v1) == [keys |-> <<k1>>, val |-> (k1 :> v1)]

Dict2(k1, v1, k2, v2) == [keys |-> <<k1, k2>>, val |-> (k1 :> v1 @@ k2 :> v2)]

\* dict == dict: same key set, equal values; insertion order is ignored
DictEq(d1, d2) ==
    /\ Range(d1.keys) = Range(d2.keys)
    /\ \A k \in Range(d1.keys) : PyEq(d1.val[k], d2.val[k])

\* x == y for two optional dicts (<<>> is None)
OptDictEq(o1, o2) ==
    IF o1 = <<>> \/ o2 = <<>> THEN o1 = <<>> /\ o2 = <<>>
    ELSE DictEq(o1[1], o2[1])

\* iteration order of a Python set of names
RECURSIVE SetOrder(_, _)
SetOrder(S, order) ==
    IF order = <<>> THEN <<>>
    ELSE IF Head(order) \in S THEN <<Head(order)>> \o SetOrder(S, Tail(order))
    ELSE SetOrder(S, Tail(order))

-----------------------------------------------------------------------------
(* state_diff.py *)

VariableChange(name, change_type, old_value, new_value) ==
    [name |-> name, change_type |-> change_type,
     old_value |-> old_value, new_value |-> new_value]

StateDiff == [created |-> <<>>, modified |-> <<>>, removed |-> <<>>]

has_changes(diff) ==
    diff.created # <<>> \/ diff.modified # <<>> \/ diff.removed # <<>>

normalize_value(value) ==
    IF value.t = "NoneType" THEN value
    ELSE IF value.t = "str" THEN value
    ELSE IF IsNumeric(value) THEN value
    ELSE IF value.t \in {"list", "tuple"} THEN ListV(value.items)
    ELSE IF value.t = "dict" THEN value
    ELSE StrOf(value)

\* mutant: the value is passed positionally and lands in old_value
CreatedOf_positional(names, curr) ==
    [k \in 1..Len(names) |->
        VariableChange(names[k], "created", normalize_value(curr.val[names[k]]), NoneV)]

\* the created entries for the names of `names`, in that order
CreatedOf(names, curr) ==
    [k \in 1..Len(names) |->
        VariableChange(names[k], "created", NoneV, normalize_value(curr.val[names[k]]))]

RemovedOf(names, prev) ==
    [k \in 1..Len(names) |->
        VariableChange(names[k], "removed", normalize_value(prev.val[names[k]]), NoneV)]

\* mutant: every common name is reported, the values are not compared
ModifiedOf_unchecked(names, prev, curr) ==
    [k \in 1..Len(names) |->
        VariableChange(names[k], "modified", normalize_value(prev.val[names[k]]),
                       normalize_value(curr.val[names[k]]))]

\* mutant: a modified entry carries the previous value as its new value
ModifiedOf_new_is_old(names, prev, curr) ==
    LET changed == SelectSeq(names, LAMBDA n :
                       ~PyEq(normalize_value(prev.val[n]), normalize_value(curr.val[n])))
    IN  [k \in 1..Len(changed) |->
            VariableChange(changed[k], "modified", normalize_value(prev.val[changed[k]]),
                           normalize_value(prev.val[changed[k]]))]

RECURSIVE ModifiedOf(_, _, _)
\* the modified entries among the common names `names`, in that order
ModifiedOf(names, prev, curr) ==
    IF names = <<>> THEN <<>>
    ELSE LET name == Head(names)
             old_value == normalize_value(prev.val[name])
             new_value == normalize_value(curr.val[name])
             rest == ModifiedOf(Tail(names), prev, curr)
         IN  IF ~PyEq(old_value, new_value)
             THEN <<VariableChange(name, "modified", old_value, new_value)>> \o rest
             ELSE rest

\* mutant: removed_names = prev_names, the current names are not subtracted
compute_diff_removed_all(prev, curr, order) ==
    IF prev = <<>> \/ DictEq(prev[1], EmptyDict)
    THEN [StateDiff EXCEPT !.created = CreatedOf(curr.keys, curr)]
    ELSE LET prev_names == Range(prev[1].keys)
             curr_names == Range(curr.keys)
         IN  [created |-> CreatedOf(SetOrder(curr_names \ prev_names, order), curr),
              removed |-> RemovedOf(SetOrder(prev_names, order), prev[1]),
              modified |-> ModifiedOf(SetOrder(prev_names \cap curr_names, order),
                                      prev[1], curr)]

\* prev is <<>> (None) or <<dict>>; order is the iteration order of sets of names
compute_diff(prev, curr, order) ==
    IF prev = <<>> \/ DictEq(prev[1], EmptyDict)
    THEN [StateDiff EXCEPT !.created = CreatedOf(curr.keys, curr)]
    ELSE LET prev_names == Range(prev[1].keys)
             curr_names == Range(curr.keys)
         IN  [created |-> CreatedOf(SetOrder(curr_names \ prev_names, order), curr),
              removed |-> RemovedOf(SetOrder(prev_names \ curr_names, order), prev[1]),
              modified |-> ModifiedOf(SetOrder(prev_names \cap curr_names, order),
                                      prev[1], curr)]

\* compute_trace_diffs from position k on, prev being the previous curr_vars
RECURSIVE TraceDiffsFrom(_, _, _, _)
TraceDiffsFrom(trace, k, prev, order) ==
    IF k > Len(trace) THEN <<>>
    ELSE LET curr == trace[k].variables
         IN  <<compute_diff(prev, curr, order)>>
                 \o TraceDiffsFrom(trace, k + 1, <<curr>>, order)

\* compute_trace_diffs with prev_vars never advanced: every step is diffed
\* against an absent previous snapshot
compute_trace_diffs_prev_not_advanced(trace, order) ==
    [k \in 1..Len(trace) |-> compute_diff(<<>>, trace[k].variables, order)]

compute_trace_diffs(trace, order) ==
    IF trace = <<>> THEN <<>> ELSE TraceDiffsFrom(trace, 1, <<>>, order)

-----------------------------------------------------------------------------
(* Text: a string is a sequence of one-character strings *)

IsSpace(c) == c = " "

RECURSIVE LStrip(_)
LStrip(s) == IF s # <<>> /\ IsSpace(Head(s)) THEN LStrip(Tail(s)) ELSE s

RECURSIVE RStrip(_)
RStrip(s) ==
    IF s # <<>> /\ IsSpace(s[Len(s)]) THEN RStrip(SubSeq(s, 1, Len(s) - 1)) ELSE s

\* str.strip()
Strip(s) == RStrip(LStrip(s))

-----------------------------------------------------------------------------
(* trace_processor.py *)

AllKeys == {"step", "line", "function", "variables", "event", "call_stack_depth"}

\* a raw step: a Python dict holding the keys of `present`
RawStep(present, step, line, function, variables, event, depth) ==
    [present |-> present, step |-> step, line |-> line, function |-> function,
     variables |-> variables, event |-> event, call_stack_depth |-> depth]

\* dict.get(key): <<>> is None
GetOpt(d, key) == IF key \in d.present THEN <<d[key]>> ELSE <<>>

\* dict.get(key, default)
Get(d, key, default) == IF key \in d.present THEN d[key] ELSE default

get_line_content(code_lines, line_num) ==
    IF 0 < line_num /\ line_num <= Len(code_lines)
    THEN Strip(code_lines[line_num])
    ELSE <<>>

\* mutant: the snapshots are not compared
is_redundant_frame_line_only(step, prev) ==
    IF prev = <<>> THEN FALSE
    ELSE GetOpt(step, "line") = GetOpt(prev[1], "line")

\* mutant: the lines are not compared
is_redundant_frame_vars_only(step, prev) ==
    IF prev = <<>> THEN FALSE
    ELSE OptDictEq(GetOpt(step, "variables"), GetOpt(prev[1], "variables"))

\* prev is <<>> (None) or <<raw step>>
is_redundant_frame(step, prev) ==
    IF prev = <<>> THEN FALSE
    ELSE LET same_line == GetOpt(step, "line") = GetOpt(prev[1], "line")
             same_vars == OptDictEq(GetOpt(step, "variables"),
                                    GetOpt(prev[1], "variables"))
         IN  same_line /\ same_vars

\* mutant: the raw step number is kept instead of re-indexing
enriched_step_raw_number(code_lines, step, n) ==
    [step |-> Get(step, "step", 0),
     line |-> Get(step, "line", 0),
     source |-> get_line_content(code_lines, Get(step, "line", 0)),
     function |-> Get(step, "function", "main"),
     variables |-> Get(step, "variables", EmptyDict),
     event |-> Get(step, "event", "line"),
     call_stack_depth |-> Get(step, "call_stack_depth", 0)]

\* the enriched step process_trace appends when n steps were retained before
enriched_step(code_lines, step, n) ==
    [step |-> n + 1,
     line |-> Get(step, "line", 0),
     source |-> get_line_content(code_lines, Get(step, "line", 0)),
     function |-> Get(step, "function", "main"),
     variables |-> Get(step, "variables", EmptyDict),
     event |-> Get(step, "event", "line"),
     call_stack_depth |-> Get(step, "call_stack_depth", 0)]

\* one iteration of the loop of process_trace over [processed_steps, prev_step]
ProcessIter(code_lines, st, step) ==
    IF is_redundant_frame(step, st.prev_step) THEN st
    ELSE [processed_steps |->
              Append(st.processed_steps,
                     enriched_step(code_lines, step, Len(st.processed_steps))),
          prev_step |-> <<step>>]

RECURSIVE ProcessFrom(_, _, _, _)
ProcessFrom(code_lines, raw, k, st) ==
    IF k > Len(raw) THEN st
    ELSE ProcessFrom(code_lines, raw, k + 1, ProcessIter(code_lines, st, raw[k]))

process_trace(code_lines, raw) ==
    IF raw = <<>> THEN <<>>
    ELSE ProcessFrom(code_lines, raw, 1,
                     [processed_steps |-> <<>>, prev_step |-> <<>>]).processed_steps

-----------------------------------------------------------------------------
(* Text matching, as the re and str operations of concept_extractor.py do it *)

LowerLetters ==
    <<"a", "b", "c", "d", "e", "f", "g", "h", "i", "j", "k", "l", "m",
      "n", "o", "p", "q", "r", "s", "t", "u", "v", "w", "x", "y", "z">>

UpperLetters ==
    <<"A", "B", "C", "D", "E", "F", "G", "H", "I", "J", "K", "L", "M",
      "N", "O", "P", "Q", "R", "S", "T", "U", "V", "W", "X", "Y", "Z">>

Digits == {"0", "1", "2", "3", "4", "5", "6", "7", "8", "9"}

LowerChar(c) ==
    IF c \in Range(UpperLetters)
    THEN LowerLetters[CHOOSE k \in 1..Len(UpperLetters) : UpperLetters[k] = c]
    ELSE c

\* str.lower()
Lower(s) == [k \in 1..Len(s) |-> LowerChar(s[k])]

\* the regular expression class \w
IsWordChar(c) ==
    c \in Range(LowerLetters) \cup Range(UpperLetters) \cup Digits \cup {"_"}

\* sub occurs in s at position p
OccursAt(s, sub, p) ==
    /\ p >= 1
    /\ p + Len(sub) - 1 <= Len(s)
    /\ \A k \in 1..Len(sub) : s[p + k - 1] = sub[k]

\* sub in s
Contains(s, sub) == \E p \in 1..(Len(s) + 1) : OccursAt(s, sub, p)

\* re.search(r'\b' + re.escape(word) + r'\b', s) for a word of \w characters
ContainsWord(s, word) ==
    \E p \in 1..Len(s) :
        /\ OccursAt(s, word, p)
        /\ (p = 1 \/ ~IsWordChar(s[p - 1]))
        /\ (p + Len(word) - 1 = Len(s) \/ ~IsWordChar(s[p + Len(word)]))

\* re.search(r'\w+\s*\(', s)
MatchesCall(s) ==
    \E p \in 1..Len(s) : \E q \in (p + 1)..Len(s) :
        /\ IsWordChar(s[p])
        /\ s[q] = "("
        /\ \A k \in (p + 1)..(q - 1) : IsSpace(s[k])

\* re.search(r'\[.*for.*in.*\]', s)
MatchesComprehension(s) ==
    \E p \in 1..Len(s) : \E q \in (p + 1)..Len(s) :
    \E r \in (q + 3)..Len(s) : \E e \in (r + 2)..Len(s) :
        /\ s[p] = "["
        /\ OccursAt(s, <<"f", "o", "r">>, q)
        /\ OccursAt(s, <<"i", "n">>, r)
        /\ s[e] = "]"

\* re.search(r'["\'].*["\']', s)
MatchesQuoted(s) ==
    \E p \in 1..Len(s) : \E q \in (p + 1)..Len(s) :
        s[p] \in {"\"", "'"} /\ s[q] \in {"\"", "'"}

-----------------------------------------------------------------------------
(* concept_extractor.py *)

CONTROL_FLOW_KEYWORDS ==
    [conditional |-> {<<"i", "f">>, <<"e", "l", "i", "f">>, <<"e", "l", "s", "e">>},
     loop |-> {<<"f", "o", "r">>, <<"w", "h", "i", "l", "e">>, <<"i", "n">>},
     function |-> {<<"d", "e", "f">>, <<"r", "e", "t", "u", "r", "n">>},
     exception |-> {<<"t", "r", "y">>, <<"e", "x", "c", "e", "p", "t">>,
                    <<"f", "i", "n", "a", "l", "l", "y">>, <<"r", "a", "i", "s", "e">>}]

ARITHMETIC_OPERATORS ==
    {<<"+">>, <<"-">>, <<"*">>, <<"/">>, <<"/", "/">>, <<"%">>, <<"*", "*">>}

COMPARISON_OPERATORS ==
    {<<"=", "=">>, <<"!", "=">>, <<"<">>, <<">">>, <<"<", "=">>, <<">", "=">>}

LOGICAL_OPERATORS == {<<"a", "n", "d">>, <<"o", "r">>, <<"n", "o", "t">>}

detect_from_source(source_line) ==
    IF source_line = <<>> THEN {}
    ELSE LET source_lower == Strip(Lower(source_line))
             kw(group) == \E w \in CONTROL_FLOW_KEYWORDS[group] :
                              ContainsWord(source_lower, w)
         IN  (IF kw("conditional") THEN {"conditional"} ELSE {})
             \cup (IF kw("loop") THEN {"iteration"} ELSE {})
             \cup (IF kw("function") THEN {"function_call"} ELSE {})
             \cup (IF kw("exception") THEN {"exception_handling"} ELSE {})
             \cup (IF \E op \in ARITHMETIC_OPERATORS : Contains(source_line, op)
                   THEN {"arithmetic"} ELSE {})
             \cup (IF \E op \in COMPARISON_OPERATORS : Contains(source_line, op)
                   THEN {"comparison"} ELSE {})
             \cup (IF \E op \in LOGICAL_OPERATORS : ContainsWord(source_lower, op)
                   THEN {"logical_operation"} ELSE {})
             \cup (IF /\ Contains(source_line, <<"=">>)
                      /\ ~Contains(source_line, <<"=", "=">>)
                      /\ ~Contains(source_line, <<"!", "=">>)
                   THEN {"assignment"} ELSE {})
             \cup (IF Contains(source_line, <<"[">>) /\ Contains(source_line, <<"]">>)
                   THEN {"indexing"} ELSE {})
             \cup (IF MatchesCall(source_line) THEN {"function_call"} ELSE {})
             \cup (IF MatchesComprehension(source_line)
                   THEN {"list_comprehension"} ELSE {})
             \cup (IF /\ Contains(source_line, <<"{">>)
                      /\ Contains(source_line, <<":">>)
                      /\ Contains(source_line, <<"}">>)
                   THEN {"dictionary"} ELSE {})
             \cup (IF MatchesQuoted(source_line) THEN {"string"} ELSE {})

\* the tag of a created value's type
CreatedTypeTags(value) ==
    IF value.t = "list" THEN {"list"}
    ELSE IF value.t = "dict" THEN {"dictionary"}
    ELSE IF IsNumeric(value) THEN {"numeric"}
    ELSE IF value.t = "str" THEN {"string"}
    ELSE {}

ModifiedTags(change) ==
    (IF IsNumeric(change.old_value) /\ IsNumeric(change.new_value)
     THEN {"arithmetic"} ELSE {})
    \cup (IF change.old_value.t = "list" /\ change.new_value.t = "list"
          THEN IF Len(change.new_value.items) > Len(change.old_value.items)
               THEN {"list_append"}
               ELSE IF Len(change.new_value.items) < Len(change.old_value.items)
                    THEN {"list_removal"}
                    ELSE {}
          ELSE {})

detect_from_state_diff(diff) ==
    IF ~has_changes(diff) THEN {}
    ELSE (IF diff.created # <<>>
          THEN {"assignment"}
                   \cup UNION {CreatedTypeTags(diff.created[k].new_value)
                                  : k \in 1..Len(diff.created)}
          ELSE {})
         \cup (IF diff.modified # <<>>
               THEN {"mutation"}
                        \cup UNION {ModifiedTags(diff.modified[k])
                                       : k \in 1..Len(diff.modified)}
               ELSE {})
         \cup (IF diff.removed # <<>> THEN {"scope"} ELSE {})

\* mutant: the event kind is not looked at
detect_from_event_depth_only(event, prev_depth, curr_depth) ==
    (IF curr_depth > prev_depth THEN {"function_call"} ELSE {})
    \cup (IF curr_depth < prev_depth THEN {"function_return"} ELSE {})

detect_from_event(event, prev_depth, curr_depth) ==
    (IF curr_depth > prev_depth THEN {"function_call"} ELSE {})
    \cup (IF curr_depth < prev_depth THEN {"function_return"} ELSE {})
    \cup (IF event = "call" THEN {"function_call"}
          ELSE IF event = "return" THEN {"function_return"}
          ELSE {})

\* every tag the extractor can emit, in the order sorted() puts strings
SortedTags ==
    <<"arithmetic", "assignment", "comparison", "conditional", "dictionary",
      "exception_handling", "function_call", "function_return", "indexing",
      "iteration", "list", "list_append", "list_comprehension", "list_removal",
      "logical_operation", "mutation", "numeric", "scope", "string">>

\* sorted(list(tags))
Sorted(tags) == SetOrder(tags, SortedTags)

\* mutant: the three signals are listed one after the other
extract_concepts_concatenated(step, diff, prev) ==
    LET prev_depth == IF prev # <<>> THEN prev[1].call_stack_depth ELSE 0
    IN  SetOrder(detect_from_source(step.source), SortedTags)
            \o SetOrder(detect_from_state_diff(diff), SortedTags)
            \o SetOrder(detect_from_event(step.event, prev_depth, step.call_stack_depth),
                        SortedTags)

\* prev is <<>> (None) or <<processed step>>
extract_concepts(step, diff, prev) ==
    LET source_concepts == detect_from_source(step.source)
        diff_concepts == detect_from_state_diff(diff)
        prev_depth == IF prev # <<>> THEN prev[1].call_stack_depth ELSE 0
        event_concepts == detect_from_event(step.event, prev_depth, step.call_stack_depth)
    IN  Sorted(source_concepts \cup diff_concepts \cup event_concepts)

\* the call's result: whether it raised, and the value it returned
extract_trace_concepts(trace, ds) ==
    IF Len(trace) # Len(ds)
    THEN [raised |-> FALSE, value |-> <<>>]
    ELSE [raised |-> FALSE,
          value |-> [k \in 1..Len(trace) |->
                        extract_concepts(trace[k], ds[k],
                                         IF k = 1 THEN <<>> ELSE <<trace[k - 1]>>)]]

-----------------------------------------------------------------------------
(* knowledge_retrieval.py *)

RECURSIVE SqueezeSpaces(_)
\* runs of spaces become one space
SqueezeSpaces(s) ==
    IF Len(s) < 2 THEN s
    ELSE IF IsSpace(s[1]) /\ IsSpace(s[2]) THEN SqueezeSpaces(Tail(s))
    ELSE <<s[1]>> \o SqueezeSpaces(Tail(s))

\* ' '.join(source_line.split())
CleanedSource(source_line) == SqueezeSpaces(Strip(source_line))

RECURSIVE JoinWords(_)
\* ' '.join(words)
JoinWords(words) ==
    IF words = <<>> THEN <<>>
    ELSE IF Len(words) = 1 THEN <<words[1]>>
    ELSE <<words[1], " ">> \o JoinWords(Tail(words))

build_query(concepts, source_line) ==
    IF concepts # <<>>
    THEN JoinWords(concepts) \o <<" ">> \o CleanedSource(source_line)
    ELSE CleanedSource(source_line)

priority_concepts ==
    <<"iteration", "conditional", "function_call", "recursion", "list_comprehension",
      "exception_handling", "dictionary", "list", "arithmetic", "assignment">>

\* <<>> is None
select_primary_concept(concepts) ==
    LET hits == SetOrder(Range(concepts), priority_concepts)
    IN  IF hits # <<>> THEN <<hits[1]>>
        ELSE IF concepts # <<>> THEN <<concepts[1]>>
        ELSE <<>>

\* what a call of the retrieval collaborator does: raise, or return chunks
Raises == [raises |-> TRUE, chunks |-> <<>>]
Returns(chunks) == [raises |-> FALSE, chunks |-> chunks]

RetrievalCall(fn, query, concept_hint, top_k, response) ==
    [fn |-> fn, query |-> query, concept_hint |-> concept_hint, top_k |-> top_k,
     response |-> response]

\* mutant: no except clause, the collaborator's exception leaves the method
retrieve_for_step_no_except(concepts, source_line, top_k, r1, r2) ==
    IF concepts = <<>> /\ source_line = <<>>
    THEN [knowledge |-> <<>>, calls |-> <<>>, raised |-> FALSE]
    ELSE LET query == build_query(concepts, source_line)
             primary_concept == select_primary_concept(concepts)
             filtered == IF concepts # <<>> /\ primary_concept # <<>>
                         THEN <<RetrievalCall("retrieve_by_concept", query,
                                              primary_concept[1], top_k, r1)>>
                         ELSE <<>>
             general == <<RetrievalCall("retrieve", query, "", top_k, r2)>>
         IN  IF filtered # <<>> /\ r1.raises
             THEN [knowledge |-> <<>>, calls |-> filtered, raised |-> TRUE]
             ELSE IF filtered # <<>> /\ r1.chunks # <<>>
             THEN [knowledge |-> r1.chunks, calls |-> filtered, raised |-> FALSE]
             ELSE IF r2.raises
             THEN [knowledge |-> <<>>, calls |-> filtered \o general, raised |-> TRUE]
             ELSE [knowledge |-> r2.chunks, calls |-> filtered \o general,
                   raised |-> FALSE]

\* mutant: a failed query is issued a second time before giving up
retrieve_for_step_retry(concepts, source_line, top_k, r1, r2) ==
    IF concepts = <<>> /\ source_line = <<>>
    THEN [knowledge |-> <<>>, calls |-> <<>>, raised |-> FALSE]
    ELSE LET query == build_query(concepts, source_line)
             primary_concept == select_primary_concept(concepts)
             filtered == IF concepts # <<>> /\ primary_concept # <<>>
                         THEN <<RetrievalCall("retrieve_by_concept", query,
                                              primary_concept[1], top_k, r1)>>
                         ELSE <<>>
             general == <<RetrievalCall("retrieve", query, "", top_k, r2)>>
         IN  IF filtered # <<>> /\ r1.raises
             THEN [knowledge |-> <<>>, calls |-> filtered \o filtered, raised |-> FALSE]
             ELSE IF filtered # <<>> /\ r1.chunks # <<>>
             THEN [knowledge |-> r1.chunks, calls |-> filtered, raised |-> FALSE]
             ELSE IF r2.raises
             THEN [knowledge |-> <<>>, calls |-> filtered \o general \o general,
                   raised |-> FALSE]
             ELSE [knowledge |-> r2.chunks, calls |-> filtered \o general,
                   raised |-> FALSE]

\* mutant: the general query is issued whatever the filtered one returned
retrieve_for_step_always_general(concepts, source_line, top_k, r1, r2) ==
    LET query == build_query(concepts, source_line)
        primary_concept == select_primary_concept(concepts)
        filtered == IF concepts # <<>> /\ primary_concept # <<>>
                    THEN <<RetrievalCall("retrieve_by_concept", query,
                                         primary_concept[1], top_k, r1)>>
                    ELSE <<>>
        general == <<RetrievalCall("retrieve", query, "", top_k, r2)>>
    IN  IF (filtered # <<>> /\ r1.raises) \/ r2.raises
        THEN [knowledge |-> <<>>, calls |-> filtered \o general, raised |-> FALSE]
        ELSE [knowledge |-> r2.chunks, calls |-> filtered \o general, raised |-> FALSE]

\* retrieve_for_step(concepts, source_line) when retrieve_by_concept does r1
\* and retrieve does r2: the knowledge returned, the calls made to the
\* collaborator, and whether an exception left the method
retrieve_for_step(concepts, source_line, top_k, r1, r2) ==
    IF concepts = <<>> /\ source_line = <<>>
    THEN [knowledge |-> <<>>, calls |-> <<>>, raised |-> FALSE]
    ELSE LET query == build_query(concepts, source_line)
             primary_concept == select_primary_concept(concepts)
             filtered == IF concepts # <<>> /\ primary_concept # <<>>
                         THEN <<RetrievalCall("retrieve_by_concept", query,
                                              primary_concept[1], top_k, r1)>>
                         ELSE <<>>
             general == <<RetrievalCall("retrieve", query, "", top_k, r2)>>
         IN  IF filtered # <<>> /\ r1.raises
             THEN [knowledge |-> <<>>, calls |-> filtered, raised |-> FALSE]
             ELSE IF filtered # <<>> /\ r1.chunks # <<>>
             THEN [knowledge |-> r1.chunks, calls |-> filtered, raised |-> FALSE]
             ELSE IF r2.raises
             THEN [knowledge |-> <<>>, calls |-> filtered \o general, raised |-> FALSE]
             ELSE [knowledge |-> r2.chunks, calls |-> filtered \o general,
                   raised |-> FALSE]

-----------------------------------------------------------------------------
(* step_explainer.py: texts are sequences of tokens, an explanation is the  *)
(* sequence of its parts (the code joins them with a space)                *)

RECURSIVE Repr(_)
\* str(value)
Repr(v) ==
    LET RECURSIVE Items(_, _)
        Items(xs, k) ==
            IF k > Len(xs) THEN <<>>
            ELSE (IF k > 1 THEN <<",", " ">> ELSE <<>>) \o Repr(xs[k]) \o Items(xs, k + 1)
        RECURSIVE Pairs(_, _)
        Pairs(xs, k) ==
            IF k > Len(xs) THEN <<>>
            ELSE (IF k > 1 THEN <<",", " ">> ELSE <<>>)
                     \o <<"'", "k", ToString(k), "'", ":", " ">> \o Repr(xs[k])
                     \o Pairs(xs, k + 1)
    IN  IF v.t = "NoneType" THEN <<"None">>
        ELSE IF v.t = "int" THEN <<ToString(v.n)>>
        ELSE IF v.t = "float" THEN <<ToString(v.n), ".", "0">>
        ELSE IF v.t = "bool" THEN (IF v.n = 0 THEN <<"False">> ELSE <<"True">>)
        ELSE IF v.t = "str" THEN <<"'", "s", ToString(v.n), "'">>
        ELSE IF v.t = "list" THEN <<"[">> \o Items(v.items, 1) \o <<"]">>
        ELSE IF v.t = "tuple"
             THEN <<"(">> \o Items(v.items, 1)
                      \o (IF Len(v.items) = 1 THEN <<",">> ELSE <<>>) \o <<")">>
        ELSE IF v.t = "dict" THEN <<"{">> \o Pairs(v.items, 1) \o <<"}">>
        ELSE <<"<", "object", ToString(v.n), ">">>

format_value(value) ==
    IF value.t = "NoneType" THEN <<"None">>
    ELSE IF value.t = "str" THEN <<"\"", "s", ToString(value.n), "\"">>
    ELSE IF value.t \in {"list", "tuple"}
         THEN IF Len(value.items) > 5
              THEN <<value.t, " ", "with", " ", ToString(Len(value.items)), " ", "items">>
              ELSE Repr(value)
    ELSE IF value.t = "dict"
         THEN IF Len(value.items) > 3
              THEN <<"dict", " ", "with", " ", ToString(Len(value.items)), " ", "keys">>
              ELSE Repr(value)
    ELSE Repr(value)

\* A knowledge chunk is a sequence of segments [kind, id, len, markup, words]:
\* a fenced code block (kind "code") or a sentence ending in a period (kind
\* "text") of len characters before the period, markup of them being
\* emphasis or heading markers, holding the marker words `words`.
Segment(kind, id, len, markup, words) ==
    [kind |-> kind, id |-> id, len |-> len, markup |-> markup, words |-> words]

RECURSIVE clean_markdown(_)
\* code blocks go, markers go; what is left are the sentences, each with the
\* length it has without its markers
clean_markdown(text) ==
    IF text = <<>> THEN <<>>
    ELSE IF Head(text).kind = "code" THEN clean_markdown(Tail(text))
    ELSE <<[id |-> Head(text).id, len |-> Head(text).len - Head(text).markup,
            words |-> Head(text).words]>> \o clean_markdown(Tail(text))

RECURSIVE Flatten(_)
Flatten(ss) == IF ss = <<>> THEN <<>> ELSE Head(ss) \o Flatten(Tail(ss))

RECURSIVE SelectSeq2(_, _, _)
\* the elements of s that satisfy Test, up to n of them (0: all)
SelectSeq2(s, Test(_), n) ==
    IF s = <<>> THEN <<>>
    ELSE IF Test(Head(s))
         THEN IF n = 1 THEN <<Head(s)>>
              ELSE <<Head(s)>> \o SelectSeq2(Tail(s), Test, IF n = 0 THEN 0 ELSE n - 1)
         ELSE SelectSeq2(Tail(s), Test, n)

Prefix(s, n) == SubSeq(s, 1, IF Len(s) < n THEN Len(s) ELSE n)

BeginnerWords ==
    {"allows", "helps", "used for", "means", "enables", "is a", "are", "can",
     "provides", "makes"}

TechnicalWords ==
    {"complexity", "time", "space", "algorithm", "optimize", "performance", "memory",
     "o(", "stack", "heap", "reference", "mutation", "immutable", "allocation",
     "iteration", "constant", "linear", "evaluated", "executes"}

\* the sentences selected, each of length len + 1 with its period
extract_core_concept(knowledge, lvl) ==
    IF knowledge = <<>> THEN <<>>
    ELSE
    LET cleaned_chunks == [k \in 1..Len(Prefix(knowledge, 2)) |->
                              clean_markdown(knowledge[k])]
        sentences == SelectSeq2(Flatten(cleaned_chunks), LAMBDA x : x.len > 15, 0)
    IN  IF sentences = <<>> THEN <<>>
        ELSE IF lvl = "beginner"
        THEN LET explanatory ==
                     SelectSeq2(Prefix(sentences, 6),
                                LAMBDA x : ~(x.len + 1 < 20)
                                           /\ x.words \cap BeginnerWords # {}, 2)
             IN  IF explanatory # <<>> THEN explanatory ELSE Prefix(sentences, 2)
        ELSE IF lvl = "medium"
        THEN LET result_sentences ==
                     SelectSeq2(Prefix(sentences, 4), LAMBDA x : ~(x.len + 1 < 25), 2)
             IN  IF result_sentences # <<>> THEN result_sentences
                 ELSE Prefix(sentences, 1)
        ELSE LET technical ==
                     SelectSeq2(Prefix(sentences, 6),
                                LAMBDA x : ~(x.len + 1 < 25)
                                           /\ x.words \cap TechnicalWords # {}, 2)
                 substantive ==
                     SelectSeq2(Prefix(sentences, 3), LAMBDA x : x.len + 1 > 25, 0)
             IN  IF technical # <<>> THEN technical
                 ELSE IF substantive # <<>> THEN Prefix(substantive, 2)
                 ELSE Prefix(sentences, 1)

\* the templates of _generate_explanation, by the name the parts carry
Templates ==
    [beginner_created |->
         "A new variable named {name} is created and stores the value {val}. This is a {val_type} type in Python.",
     beginner_modified |->
         "The variable {name} changes its value from {old} to {new}. The old value is replaced with the new value in memory.",
     beginner_source |->
         "Line {line} executes the code: {source}. This line runs but doesn't create or change any variables yet.",
     beginner_containers |->
         "Variables are like containers that hold values in your program so you can use them later.",
     beginner_fallback |->
         "Line {line} executes. This line is running as part of the program flow.",
     medium_created_one |->
         "Variable {name} is assigned the value {val} ({val_type}).",
     medium_created |->
         "{name} = {val}.",
     medium_modified |->
         "{name} updated from {old} to {new}.",
     medium_fallback |->
         "Executing line {line}",
     interview_created_list |->
         "{name} initialized as empty list (dynamic array, O(1) append amortized, O(n) access by index).",
     interview_created_dict |->
         "{name} initialized as dictionary (hash table implementation, O(1) average case insertion/lookup, O(n) worst case).",
     interview_created_numeric |->
         "{name} = {val} (primitive immutable type, stored by value, assignment is O(1)).",
     interview_created_str |->
         "{name} = {val} (immutable string, stored as character array, concatenation creates new object).",
     interview_created_other |->
         "{name} = {val} (type: {val_type}).",
     interview_list_grew |->
         "{name} modified: {old} -> {new}. List grew by {size_change} element(s) via in-place mutation (O(1) amortized append, potential array resize).",
     interview_list_reduced |->
         "{name} modified: {old} -> {new}. List reduced by {abs(size_change)} element(s) (O(n) for removal from middle, O(1) for pop).",
     interview_list_mutated |->
         "{name} modified: {old} -> {new}. List mutated in place (element update is O(1)).",
     interview_dict_mutated |->
         "{name} modified: {old} -> {new}. Dictionary mutated (hash table update is O(1) average case).",
     interview_reassigned |->
         "{name} reassigned: {old} -> {new}. Variable rebinding creates new reference, old object may be garbage collected.",
     interview_fallback |->
         "L{line}: {source if source else 'execution'}"]

\* one part of an explanation: the name of a template and what fills it
Part(tmpl, args) == [tmpl |-> tmpl, args |-> args]

\* the part made of the sentences selected from the knowledge
ConceptPart(knowledge, lvl) ==
    LET concept == extract_core_concept(knowledge, lvl)
    IN  IF knowledge # <<>> /\ concept # <<>>
        THEN <<Part("concept", [k \in 1..Len(concept) |->
                                   <<"sentence", ToString(concept[k].id)>>])>>
        ELSE <<>>

BeginnerParts(diff) ==
    IF has_changes(diff)
    THEN [k \in 1..Len(diff.created) |->
             Part("beginner_created",
                  <<<<diff.created[k].name>>, format_value(diff.created[k].new_value),
                    <<diff.created[k].new_value.t>>>>)]
         \o [k \in 1..Len(diff.modified) |->
             Part("beginner_modified",
                  <<<<diff.modified[k].name>>, format_value(diff.modified[k].old_value),
                    format_value(diff.modified[k].new_value)>>)]
    ELSE <<>>

MediumParts(diff) ==
    IF has_changes(diff)
    THEN (IF Len(diff.created) = 1
          THEN <<Part("medium_created_one",
                      <<<<diff.created[1].name>>, format_value(diff.created[1].new_value),
                        <<diff.created[1].new_value.t>>>>)>>
          ELSE [k \in 1..Len(Prefix(diff.created, 2)) |->
                   Part("medium_created",
                        <<<<diff.created[k].name>>,
                          format_value(diff.created[k].new_value)>>)])
         \o [k \in 1..Len(Prefix(diff.modified, 2)) |->
                Part("medium_modified",
                     <<<<diff.modified[k].name>>, format_value(diff.modified[k].old_value),
                       format_value(diff.modified[k].new_value)>>)]
    ELSE <<>>

\* mutant: a created number is announced without its value
InterviewCreated_no_value(change) ==
    IF change.new_value.t = "list"
    THEN Part("interview_created_list", <<<<change.name>>>>)
    ELSE IF change.new_value.t = "dict"
    THEN Part("interview_created_dict", <<<<change.name>>>>)
    ELSE Part("interview_created_other",
              <<<<change.name>>, <<change.new_value.t>>, <<change.new_value.t>>>>)

InterviewCreated(change) ==
    LET val == format_value(change.new_value)
    IN  IF change.new_value.t = "list"
        THEN Part("interview_created_list",
                  <<<<change.name>>>>)
        ELSE IF change.new_value.t = "dict"
        THEN Part("interview_created_dict",
                  <<<<change.name>>>>)
        ELSE IF IsNumeric(change.new_value)
        THEN Part("interview_created_numeric",
                  <<<<change.name>>, val>>)
        ELSE IF change.new_value.t = "str"
        THEN Part("interview_created_str",
                  <<<<change.name>>, val>>)
        ELSE Part("interview_created_other",
                  <<<<change.name>>, val, <<change.new_value.t>>>>)

InterviewModified(change) ==
    LET old == format_value(change.old_value)
        new == format_value(change.new_value)
        size_change == Len(change.new_value.items) - Len(change.old_value.items)
    IN  IF change.new_value.t = "list" /\ change.old_value.t = "list"
        THEN IF size_change > 0
             THEN Part("interview_list_grew",
                       <<<<change.name>>, old, new, <<ToString(size_change)>>>>)
             ELSE IF size_change < 0
             THEN Part("interview_list_reduced",
                       <<<<change.name>>, old, new, <<ToString(0 - size_change)>>>>)
             ELSE Part("interview_list_mutated",
                       <<<<change.name>>, old, new>>)
        ELSE IF change.new_value.t = "dict" /\ change.old_value.t = "dict"
        THEN Part("interview_dict_mutated",
                  <<<<change.name>>, old, new>>)
        ELSE Part("interview_reassigned",
                  <<<<change.name>>, old, new>>)

InterviewParts(diff) ==
    IF has_changes(diff)
    THEN [k \in 1..Len(diff.created) |-> InterviewCreated(diff.created[k])]
         \o [k \in 1..Len(diff.modified) |-> InterviewModified(diff.modified[k])]
    ELSE <<>>

RECURSIVE SumLen(_)
SumLen(ss) == IF ss = <<>> THEN 0 ELSE Len(Head(ss)) + SumLen(Tail(ss))

\* len() of a beginner part: the characters of its template, and one at least
\* for each token that fills it (a sentence of the knowledge counts as empty)
PartLen(part) ==
    IF part.tmpl = "beginner_created" THEN 82 + SumLen(part.args)
    ELSE IF part.tmpl = "beginner_modified" THEN 98 + SumLen(part.args)
    ELSE IF part.tmpl = "beginner_source" THEN 89 + SumLen(part.args)
    ELSE 0

RECURSIVE JoinedLen(_)
\* len(' '.join(parts))
JoinedLen(parts) ==
    IF parts = <<>> THEN 0
    ELSE IF Len(parts) = 1 THEN PartLen(parts[1])
    ELSE PartLen(parts[1]) + 1 + JoinedLen(Tail(parts))

generate_explanation(step, diff, concepts, knowledge, lvl) ==
    LET source == step.source
        line == <<ToString(step.line)>>
        parts ==
            IF lvl = "beginner"
            THEN LET changes == BeginnerParts(diff)
                     described ==
                         IF source # <<>> /\ changes = <<>>
                         THEN <<Part("beginner_source",
                                     <<line, source>>)>>
                         ELSE changes
                     so_far == described \o ConceptPart(knowledge, lvl)
                     short == JoinedLen(so_far) < 80
                 IN  described \o ConceptPart(knowledge, lvl)
                         \o (IF short /\ has_changes(diff) /\ diff.created # <<>>
                             THEN <<Part("beginner_containers", <<>>)>>
                             ELSE <<>>)
            ELSE IF lvl = "medium"
            THEN MediumParts(diff) \o ConceptPart(knowledge, lvl)
            ELSE InterviewParts(diff) \o ConceptPart(knowledge, lvl)
    IN  IF parts = <<>>
        THEN IF lvl = "beginner"
             THEN <<Part("beginner_fallback",
                         <<line>>)>>
             ELSE IF lvl = "medium"
             THEN <<Part("medium_fallback", <<line>>)>>
             ELSE <<Part("interview_fallback",
                         <<line, IF source # <<>> THEN source ELSE <<"execution">>>>)>>
        ELSE parts

\* StepExplainer.__init__: the number of chunks asked for, by level
top_k_knowledge(lvl) ==
    IF lvl = "beginner" THEN 3 ELSE IF lvl = "medium" THEN 2 ELSE 2

-----------------------------------------------------------------------------
(* Inputs *)

\* all sequences over S of length at most n
SeqsUpTo(S, n) == UNION {[1..k -> S] : k \in 0..n}

Order1 == <<"a", "b", "c">>
Order2 == <<"c", "a", "b">>
Order3 == <<"b", "c", "a">>

\* "a = 5", "  b = a ", "print(b)"
NormCode ==
    << <<"a", " ", "=", " ", "5">>,
       <<" ", " ", "b", " ", "=", " ", "a", " ">>,
       <<"p", "r", "i", "n", "t", "(", "b", ")">> >>

NormSnapshots ==
    { <<>>, <<EmptyDict>>, <<Dict1("a", IntV(1))>>, <<Dict1("a", FloatV(1))>>,
      <<Dict1("a", IntV(2))>> }

\* the raw steps of the normalizer's traces: complete steps (in two variants
\* that differ in step number, event, scope and depth) and steps that hold
\* nothing but, possibly, 'variables'; line 4 is past the end of NormCode
NormRawSteps ==
    { RawStep(IF v = <<>> THEN AllKeys \ {"variables"} ELSE AllKeys,
              7, l, "main", IF v = <<>> THEN EmptyDict ELSE v[1], "line", 0)
        : l \in {1, 4}, v \in NormSnapshots }
    \cup
    { RawStep(IF v = <<>> THEN AllKeys \ {"variables"} ELSE AllKeys,
              3, l, "f", IF v = <<>> THEN EmptyDict ELSE v[1], "call", 1)
        : l \in {1, 4}, v \in NormSnapshots }
    \cup
    { RawStep(IF v = <<>> THEN {} ELSE {"variables"},
              0, 0, "main", IF v = <<>> THEN EmptyDict ELSE v[1], "line", 0)
        : v \in NormSnapshots }

IdleNorm ==
    /\ i = 0
    /\ processed_steps = <<>>
    /\ prev_step = <<>>
    /\ retained = <<>>

IdlePipe ==
    /\ diffs = <<>>
    /\ concepts_list = <<>>
    /\ enriched = <<>>
    /\ rlog = <<>>
    /\ loop_knowledge = <<>>

\* StepExplainer.__init__: self.trace_processor = TraceProcessor("")
IdleConc ==
    /\ trace_processor = <<<<>>>>
    /\ running = <<>>

IdleDiff ==
    /\ prev_vars = <<>>
    /\ curr_vars = EmptyDict
    /\ diff_out = StateDiff

IdleContext ==
    /\ context_step = <<>>
    /\ window = 0
    /\ context = <<>>

\* the tracer template as it is loaded: nothing traced, no trace function installed
IdleTracer ==
    /\ USER_CODE_START = 0
    /\ USER_CODE_END = 0
    /\ TRACE_DATA = <<>>
    /\ STEP = 0
    /\ CALL_STACK = 0
    /\ settrace = <<>>
    /\ frame_events = <<>>
    /\ event_index = 0
    /\ recorded_from = <<>>

IdleDb ==
    /\ cursors = <<>>
    /\ db_call = <<>>
    /\ db_log = <<>>

IdleServices == IdleContext /\ IdleTracer /\ IdleDb

-----------------------------------------------------------------------------
(* process_trace, one loop iteration at a time *)

InitNorm ==
    /\ code = NormCode
    /\ raw_trace \in SeqsUpTo(NormRawSteps, MaxTrace)
    /\ level = "medium"
    /\ hash_order = Order1
    /\ pc = "process_trace"
    /\ outcome = "none"
    /\ IdleNorm /\ IdlePipe /\ IdleConc /\ IdleDiff /\ IdleServices

\* if not raw_trace: return []
ProcessTraceEmpty ==
    /\ pc = "process_trace"
    /\ raw_trace = <<>>
    /\ pc' = "process_trace_done"
    /\ outcome' = "returned"
    /\ UNCHANGED <<inputVars, serviceVars, concVars, i, normVars, pipeVars, diffVars>>

\* one iteration of: for i, step in enumerate(raw_trace)
ProcessTraceIter ==
    /\ pc = "process_trace"
    /\ i < Len(raw_trace)
    /\ LET st == ProcessIter(code,
                             [processed_steps |-> processed_steps,
                              prev_step |-> prev_step],
                             raw_trace[i + 1])
       IN  /\ processed_steps' = st.processed_steps
           /\ prev_step' = st.prev_step
           /\ retained' = IF Len(st.processed_steps) > Len(processed_steps)
                          THEN Append(retained, i + 1)
                          ELSE retained
    /\ i' = i + 1
    /\ UNCHANGED <<inputVars, serviceVars, concVars, pc, outcome, pipeVars, diffVars>>

\* return processed_steps
ProcessTraceReturn ==
    /\ pc = "process_trace"
    /\ raw_trace # <<>>
    /\ i = Len(raw_trace)
    /\ pc' = "process_trace_done"
    /\ outcome' = "returned"
    /\ UNCHANGED <<inputVars, serviceVars, concVars, i, normVars, pipeVars, diffVars>>

NextNorm == ProcessTraceEmpty \/ ProcessTraceIter \/ ProcessTraceReturn

SpecNorm == InitNorm /\ [][NextNorm]_vars

\* the most recently retained raw index below j (0: none)
LastRetained(j) ==
    LET below == {k \in Range(retained) : k < j}
    IN  IF below = {} THEN 0 ELSE CHOOSE k \in below : \A m \in below : m <= k

\* same line number and same variable snapshot, as Python compares them
SameLineAndSnapshot(x, y) ==
    /\ GetOpt(x, "line") = GetOpt(y, "line")
    /\ OptDictEq(GetOpt(x, "variables"), GetOpt(y, "variables"))

\* the raw steps differ in some field
DiffersInAnyField(x, y) ==
    \/ ~SameLineAndSnapshot(x, y)
    \/ GetOpt(x, "event") # GetOpt(y, "event")
    \/ GetOpt(x, "call_stack_depth") # GetOpt(y, "call_stack_depth")
    \/ GetOpt(x, "function") # GetOpt(y, "function")

\* C1: a raw step is dropped if and only if its line and its snapshot both
\* equal those of the most recently retained step; hence a run of identical
\* raw steps keeps at most its first step, and a step equal to an earlier
\* retained step but not to the most recently retained one is kept.
C1_DropIffSameAsLastRetained ==
    pc \in {"process_trace", "process_trace_done"} =>
        /\ \A j \in 1..i :
              (j \notin Range(retained)) <=>
                  /\ LastRetained(j) # 0
                  /\ SameLineAndSnapshot(raw_trace[j], raw_trace[LastRetained(j)])
        /\ \A j \in 1..i : \A k \in j..i :
              (\A m \in j..k : SameLineAndSnapshot(raw_trace[m], raw_trace[j]))
                  => /\ Range(retained) \cap ((j + 1)..k) = {}
                     /\ Cardinality({r \in Range(retained) :
                                        /\ LastRetained(j) <= r /\ r <= k
                                        /\ SameLineAndSnapshot(raw_trace[r], raw_trace[j])}) = 1
        /\ \A j \in 1..i :
              (/\ LastRetained(j) # 0
               /\ ~SameLineAndSnapshot(raw_trace[j], raw_trace[LastRetained(j)])
               /\ \E r \in Range(retained) :
                      r < j /\ SameLineAndSnapshot(raw_trace[j], raw_trace[r]))
                  => j \in Range(retained)

\* a run of three identical raw steps collapsed into one retained step
C1_Witness ==
    /\ pc = "process_trace_done"
    /\ Len(raw_trace) = 3
    /\ retained = <<1>>
    /\ Len(processed_steps) = 1

\* a revisit: the third step equals the first, not the second, and is kept
C1_RevisitReached ==
    /\ pc = "process_trace_done"
    /\ retained = <<1, 2, 3>>
    /\ SameLineAndSnapshot(raw_trace[3], raw_trace[1])

\* C2: the retained steps carry the step indices 1..N without gaps, in the
\* order of the raw trace, whatever step numbers the raw steps carried.
C2_ContiguousIndicesInOrder ==
    pc \in {"process_trace", "process_trace_done"} =>
        /\ Len(processed_steps) = Len(retained)
        /\ \A k \in 1..Len(processed_steps) :
              /\ processed_steps[k].step = k
              /\ processed_steps[k].line = Get(raw_trace[retained[k]], "line", 0)
              /\ processed_steps[k].variables =
                     Get(raw_trace[retained[k]], "variables", EmptyDict)
              /\ processed_steps[k].event = Get(raw_trace[retained[k]], "event", "line")
        /\ \A k \in 1..(Len(retained) - 1) : retained[k] < retained[k + 1]

\* steps numbered 7 and 3 with the middle one filtered out
C2_Witness ==
    /\ pc = "process_trace_done"
    /\ Len(raw_trace) = 3
    /\ retained = <<1, 3>>
    /\ raw_trace[1].step = 7 /\ raw_trace[3].step = 3
    /\ processed_steps[2].step = 2

\* C3 (as claimed): a raw step that differs from the most recently retained
\* step in any field (line, snapshot, event kind, depth, scope) is retained.
C3_NeverDropsAnyDifference ==
    pc \in {"process_trace", "process_trace_done"} =>
        \A j \in 1..i :
            (/\ LastRetained(j) # 0
             /\ DiffersInAnyField(raw_trace[j], raw_trace[LastRetained(j)]))
                => j \in Range(retained)

\* C3 (amended): a raw step whose line or snapshot differs from the most
\* recently retained step's is retained; event kind, depth and scope are not
\* looked at, a step that differs only in those is dropped.
C3_KeepsLineOrSnapshotChange ==
    pc \in {"process_trace", "process_trace_done"} =>
        \A j \in 1..i :
            /\ (\/ LastRetained(j) = 0
                \/ ~SameLineAndSnapshot(raw_trace[j], raw_trace[LastRetained(j)]))
                   => j \in Range(retained)
            /\ (/\ LastRetained(j) # 0
                /\ SameLineAndSnapshot(raw_trace[j], raw_trace[LastRetained(j)])
                /\ DiffersInAnyField(raw_trace[j], raw_trace[LastRetained(j)]))
                   => j \notin Range(retained)

\* the second step differs from the first in its snapshot alone and is kept,
\* the third differs from the second in event, scope and depth alone
C3_Witness ==
    /\ pc = "process_trace_done"
    /\ Len(raw_trace) = 3
    /\ retained = <<1, 2>>
    /\ GetOpt(raw_trace[2], "line") = GetOpt(raw_trace[1], "line")
    /\ GetOpt(raw_trace[2], "event") = GetOpt(raw_trace[1], "event")
    /\ DiffersInAnyField(raw_trace[3], raw_trace[2])

-----------------------------------------------------------------------------
(* compute_diff on two snapshots *)

\* the dict with the keys of `keys`, in that order, and the values of f
MkDict(keys, f) ==
    IF keys = <<>> THEN EmptyDict
    ELSE [keys |-> keys, val |-> [k \in Range(keys) |-> f[k]]]

Reverse(s) == [k \in 1..Len(s) |-> s[Len(s) + 1 - k]]

Absent == <<>>

\* the values a name may hold in the snapshots compared (<<>>: not defined)
DiffValues ==
    [a |-> {Absent, <<IntV(5)>>, <<IntV(6)>>},
     b |-> {Absent, <<IntV(3)>>, <<FloatV(3)>>, <<BoolV(1)>>, <<IntV(1)>>,
            <<NoneV>>, <<StrV(1)>>, <<ObjV(1)>>, <<StrV(101)>>,
            <<ListV(<<IntV(1)>>)>>, <<TupleV(<<IntV(1)>>)>>,
            <<ListV(<<IntV(1), IntV(2)>>)>>,
            <<ListV(<<ListV(<<IntV(1)>>)>>)>>, <<ListV(<<TupleV(<<IntV(1)>>)>>)>>,
            <<DictV(<<IntV(1)>>)>>},
     c |-> {Absent, <<StrV(1)>>}]

\* the snapshots compared: each choice of values, in the insertion order
\* a, b, c and in the reverse order
DiffSnapshots ==
    UNION { LET keys == SetOrder({n \in Names : f[n] # Absent}, Order1)
                vals == [n \in Names |-> IF f[n] = Absent THEN NoneV ELSE f[n][1]]
            IN  {MkDict(keys, vals), MkDict(Reverse(keys), vals)}
          : f \in [Names -> UNION {DiffValues[n] : n \in Names}] \cap
                  {g \in [Names -> UNION {DiffValues[n] : n \in Names}] :
                      \A n \in Names : g[n] \in DiffValues[n]} }

InitDiff ==
    /\ code = NormCode
    /\ raw_trace = <<>>
    /\ level = "medium"
    /\ hash_order \in {Order1, Order2}
    /\ pc = "compute_diff"
    /\ outcome = "none"
    /\ prev_vars \in {<<>>} \cup {<<d>> : d \in DiffSnapshots}
    /\ curr_vars \in DiffSnapshots
    /\ diff_out = StateDiff
    /\ IdleNorm /\ IdlePipe /\ IdleConc /\ IdleServices

ComputeDiff ==
    /\ pc = "compute_diff"
    /\ diff_out' = compute_diff(prev_vars, curr_vars, hash_order)
    /\ pc' = "compute_diff_done"
    /\ outcome' = "returned"
    /\ UNCHANGED <<inputVars, serviceVars, concVars, i, normVars, pipeVars, prev_vars, curr_vars>>

NextDiff == ComputeDiff

SpecDiff == InitDiff /\ [][NextDiff]_vars

NamesOf(changes) == {changes[k].name : k \in 1..Len(changes)}

\* equality of two values as the engine compares them
ValueEq(x, y) == PyEq(normalize_value(x), normalize_value(y))

PrevNames == IF prev_vars = <<>> THEN {} ELSE Range(prev_vars[1].keys)
CurrNames == Range(curr_vars.keys)

\* C4: with a non-empty previous snapshot, created = current names minus
\* previous names, removed = previous minus current, modified = the common
\* names whose normalized values differ; a created entry carries the current
\* value and a removed entry the previous value.
C4_DiffIsSetAlgebra ==
    (pc = "compute_diff_done" /\ PrevNames # {}) =>
        /\ NamesOf(diff_out.created) = CurrNames \ PrevNames
        /\ NamesOf(diff_out.removed) = PrevNames \ CurrNames
        /\ NamesOf(diff_out.modified) =
               {n \in PrevNames \cap CurrNames :
                   ~PyEq(normalize_value(prev_vars[1].val[n]),
                         normalize_value(curr_vars.val[n]))}
        /\ \A k \in 1..Len(diff_out.created) :
              LET c == diff_out.created[k]
              IN  c.change_type = "created" /\ ValueEq(c.new_value, curr_vars.val[c.name])
        /\ \A k \in 1..Len(diff_out.removed) :
              LET r == diff_out.removed[k]
              IN  r.change_type = "removed"
                  /\ ValueEq(r.old_value, prev_vars[1].val[r.name])
        /\ \A k \in 1..Len(diff_out.modified) :
              LET m == diff_out.modified[k]
              IN  /\ m.change_type = "modified"
                  /\ ValueEq(m.old_value, prev_vars[1].val[m.name])
                  /\ ValueEq(m.new_value, curr_vars.val[m.name])

\* {a:5} -> {a:5, b:3} yields created b=3 and nothing else
C4_Witness ==
    /\ pc = "compute_diff_done"
    /\ prev_vars = <<Dict1("a", IntV(5))>>
    /\ curr_vars = Dict2("a", IntV(5), "b", IntV(3))
    /\ diff_out = [created |-> <<VariableChange("b", "created", NoneV, IntV(3))>>,
                   modified |-> <<>>, removed |-> <<>>]

\* C6: with the previous snapshot absent or empty, every name of the current
\* snapshot is created with its current value; modified and removed are empty.
C6_FirstStepAllCreated ==
    (pc = "compute_diff_done" /\ PrevNames = {}) =>
        /\ NamesOf(diff_out.created) = CurrNames
        /\ Len(diff_out.created) = Len(curr_vars.keys)
        /\ \A k \in 1..Len(diff_out.created) :
              LET c == diff_out.created[k]
              IN  c.change_type = "created" /\ ValueEq(c.new_value, curr_vars.val[c.name])
        /\ diff_out.modified = <<>>
        /\ diff_out.removed = <<>>

\* {} -> {a:5} yields created a=5
C6_Witness ==
    /\ pc = "compute_diff_done"
    /\ prev_vars = <<EmptyDict>>
    /\ curr_vars = Dict1("a", IntV(5))
    /\ diff_out = [created |-> <<VariableChange("a", "created", NoneV, IntV(5))>>,
                   modified |-> <<>>, removed |-> <<>>]

\* the same with the previous snapshot absent (None) and two names
C6_AbsentReached ==
    /\ pc = "compute_diff_done"
    /\ prev_vars = <<>>
    /\ Len(diff_out.created) = 2

\* C7: no name is in more than one of created, modified and removed, no name
\* is twice in a list, and every listed name is a name of one of the snapshots.
C7_ListsDisjoint ==
    pc = "compute_diff_done" =>
        /\ NamesOf(diff_out.created) \cap NamesOf(diff_out.modified) = {}
        /\ NamesOf(diff_out.created) \cap NamesOf(diff_out.removed) = {}
        /\ NamesOf(diff_out.modified) \cap NamesOf(diff_out.removed) = {}
        /\ Cardinality(NamesOf(diff_out.created)) = Len(diff_out.created)
        /\ Cardinality(NamesOf(diff_out.modified)) = Len(diff_out.modified)
        /\ Cardinality(NamesOf(diff_out.removed)) = Len(diff_out.removed)
        /\ NamesOf(diff_out.created) \cup NamesOf(diff_out.modified)
               \cup NamesOf(diff_out.removed) \subseteq PrevNames \cup CurrNames

\* a diff with a created, a modified and a removed name at once
C7_Witness ==
    /\ pc = "compute_diff_done"
    /\ NamesOf(diff_out.created) = {"c"}
    /\ NamesOf(diff_out.modified) = {"b"}
    /\ NamesOf(diff_out.removed) = {"a"}

IsOrdered(v) == v.t \in {"list", "tuple"}

RECURSIVE SameContents(_, _)
\* two values that are equal up to the form (list or tuple) of the ordered
\* collections in them, at any depth
SameContents(x, y) ==
    IF IsOrdered(x) /\ IsOrdered(y)
    THEN /\ Len(x.items) = Len(y.items)
         /\ \A k \in 1..Len(x.items) : SameContents(x.items[k], y.items[k])
    ELSE PyEq(x, y)

\* C8: a variable of both snapshots whose values are ordered collections with
\* the same contents, differing only in form (tuple or list), at the top or in
\* a nested element, is not reported as modified.
C8_FormDifferenceNotModified ==
    (pc = "compute_diff_done" /\ PrevNames # {}) =>
        \A n \in PrevNames \cap CurrNames :
            (/\ IsOrdered(prev_vars[1].val[n])
             /\ IsOrdered(curr_vars.val[n])
             /\ SameContents(prev_vars[1].val[n], curr_vars.val[n]))
                => n \notin NamesOf(diff_out.modified)

\* what the code does hold to: a difference of form at the top level alone
C8_TopLevelFormNotModified ==
    (pc = "compute_diff_done" /\ PrevNames # {}) =>
        \A n \in PrevNames \cap CurrNames :
            (/\ IsOrdered(prev_vars[1].val[n])
             /\ IsOrdered(curr_vars.val[n])
             /\ PyEq(ListV(prev_vars[1].val[n].items), ListV(curr_vars.val[n].items)))
                => n \notin NamesOf(diff_out.modified)

\* "a = 5", "b = a + 3", "if a >= b:", "print(b)"
PipeCode ==
    << <<"a", " ", "=", " ", "5">>,
       <<"b", " ", "=", " ", "a", " ", "+", " ", "3">>,
       <<"i", "f", " ", "a", " ", ">", "=", " ", "b", ":">>,
       <<"p", "r", "i", "n", "t", "(", "b", ")">> >>

\* the raw steps of the traces explained; line 9 is past the end of PipeCode
PipeRawSteps ==
    { RawStep(AllKeys, 1, 1, "main", Dict1("a", IntV(5)), "line", 0),
      RawStep(AllKeys, 2, 2, "main", Dict2("a", IntV(5), "b", IntV(8)), "line", 0),
      RawStep(AllKeys, 3, 3, "main", Dict2("a", IntV(5), "b", IntV(8)), "line", 0),
      RawStep(AllKeys, 4, 4, "f", Dict1("b", ListV(<<IntV(1)>>)), "call", 1),
      RawStep(AllKeys, 5, 9, "main", EmptyDict, "line", 0) }

Levels == {"beginner", "medium", "interview_ready"}

\* the chunks of the knowledge base
Chunk1 ==
    <<Segment("text", 1, 12, 2, {}), Segment("text", 2, 40, 4, {"is a"}),
      Segment("text", 3, 30, 0, {"complexity"})>>
Chunk2 == <<Segment("code", 4, 50, 0, {}), Segment("text", 5, 22, 0, {})>>
Chunk3 == <<Segment("text", 6, 60, 0, {"time", "allows"})>>

\* what a query of the collaborator may do when top_k chunks are asked for
Responses(top_k) ==
    {Raises, Returns(<<>>), Returns(<<Chunk1>>),
     Returns(Prefix(<<Chunk2, Chunk3, Chunk1>>, top_k))}

-----------------------------------------------------------------------------
(* extract_trace_concepts on a trace and a list of diffs *)

InitConcepts ==
    /\ code = PipeCode
    /\ raw_trace \in SeqsUpTo(PipeRawSteps, MaxTrace)
    /\ level = "medium"
    /\ hash_order = Order1
    /\ pc = "extract_trace_concepts"
    /\ outcome = "none"
    /\ i = 0
    /\ processed_steps = process_trace(code, raw_trace)
    /\ prev_step = <<>>
    /\ retained = <<>>
    /\ LET full == compute_trace_diffs(processed_steps, hash_order)
       IN  diffs \in {Prefix(full, n) : n \in 0..Len(full)} \cup {full \o <<StateDiff>>}
    /\ concepts_list = <<>>
    /\ enriched = <<>>
    /\ rlog = <<>>
    /\ loop_knowledge = <<>>
    /\ IdleConc
    /\ IdleDiff /\ IdleServices

ExtractTraceConceptsCall ==
    /\ pc = "extract_trace_concepts"
    /\ LET r == extract_trace_concepts(processed_steps, diffs)
       IN  /\ outcome' = IF r.raised THEN "raised" ELSE "returned"
           /\ concepts_list' = r.value
    /\ pc' = "extract_trace_concepts_done"
    /\ UNCHANGED <<inputVars, serviceVars, concVars, i, normVars, diffs, enriched, rlog, loop_knowledge, diffVars>>

NextConcepts == ExtractTraceConceptsCall

SpecConcepts == InitConcepts /\ [][NextConcepts]_vars

\* C9: extract_trace_concepts, given a trace and a diffs list of different
\* lengths, raises; it does not return a value as a normal result.
C9_MismatchRaises ==
    (pc = "extract_trace_concepts_done" /\ Len(processed_steps) # Len(diffs))
        => outcome = "raised"

\* what the code does on a mismatch: it returns the empty list
C9_MismatchReturnsEmpty ==
    (pc = "extract_trace_concepts_done" /\ Len(processed_steps) # Len(diffs))
        => outcome = "returned" /\ concepts_list = <<>>

-----------------------------------------------------------------------------
(* generate_step_explanations *)

Init ==
    /\ code \in {PipeCode}
    /\ raw_trace \in SeqsUpTo(PipeRawSteps, MaxTrace)
    /\ level \in Levels
    /\ hash_order = Order1
    /\ pc = "generate"
    /\ outcome = "none"
    /\ IdleNorm /\ IdlePipe /\ IdleConc /\ IdleDiff /\ IdleServices

\* mutant: an empty trace is an error
GenerateEmpty_raises ==
    /\ pc = "generate"
    /\ raw_trace = <<>>
    /\ pc' = "done"
    /\ outcome' = "raised"
    /\ UNCHANGED <<inputVars, serviceVars, concVars, i, normVars, pipeVars, diffVars>>

\* if not trace: return []
GenerateEmpty ==
    /\ pc = "generate"
    /\ raw_trace = <<>>
    /\ pc' = "done"
    /\ outcome' = "returned"
    /\ UNCHANGED <<inputVars, serviceVars, concVars, i, normVars, pipeVars, diffVars>>

\* self.trace_processor = TraceProcessor(code); processed = ...process_trace(trace)
ProcessTrace ==
    /\ pc = "generate"
    /\ raw_trace # <<>>
    /\ trace_processor' = code
    /\ processed_steps' = process_trace(trace_processor', raw_trace)
    /\ pc' = "compute_trace_diffs"
    /\ UNCHANGED <<inputVars, serviceVars, running, i, prev_step, retained, outcome, pipeVars, diffVars>>

\* diffs = self.diff_engine.compute_trace_diffs(processed)
ComputeTraceDiffs ==
    /\ pc = "compute_trace_diffs"
    /\ diffs' = compute_trace_diffs(processed_steps, hash_order)
    /\ pc' = "extract_trace_concepts"
    /\ UNCHANGED <<inputVars, serviceVars, concVars, i, normVars, outcome, concepts_list, enriched, rlog, loop_knowledge,
                   diffVars>>

\* concepts_list = self.concept_extractor.extract_trace_concepts(processed, diffs)
ExtractTraceConcepts ==
    /\ pc = "extract_trace_concepts"
    /\ LET r == extract_trace_concepts(processed_steps, diffs)
       IN  IF r.raised
           THEN /\ pc' = "done"
                /\ outcome' = "raised"
                /\ UNCHANGED concepts_list
           ELSE /\ pc' = "explain"
                /\ concepts_list' = r.value
                /\ UNCHANGED outcome
    /\ UNCHANGED <<inputVars, serviceVars, concVars, i, normVars, diffs, enriched, rlog, loop_knowledge, diffVars>>

Min(x, y) == IF x < y THEN x ELSE y

\* the number of triples of zip(processed, diffs, concepts_list)
ZipLen == Min(Len(processed_steps), Min(Len(diffs), Len(concepts_list)))

\* mutant: the snapshot is not passed through
EnrichedEntry_no_snapshot(step, explanation) ==
    [step |-> step.step, line |-> step.line, variables |-> EmptyDict,
     explanation |-> explanation]

EnrichedEntry(step, explanation) ==
    [step |-> step.step, line |-> step.line, variables |-> step.variables,
     explanation |-> explanation]

\* mutant: the retrieval is guarded by the concepts alone
NeedsKnowledge_concepts_only(diff, concepts) == concepts # <<>>

\* the guard of the retrieval of a loop iteration
NeedsKnowledge(diff, concepts) == has_changes(diff) /\ concepts # <<>>

\* a loop iteration for a step whose knowledge stays []
ExplainStepWithoutRetrieval ==
    /\ pc = "explain"
    /\ i < ZipLen
    /\ LET step == processed_steps[i + 1]
           diff == diffs[i + 1]
           concepts == concepts_list[i + 1]
       IN  /\ ~NeedsKnowledge(diff, concepts)
           /\ enriched' = Append(enriched,
                  EnrichedEntry(step,
                      generate_explanation(step, diff, concepts, <<>>, level)))
    /\ loop_knowledge' = <<>>
    /\ i' = i + 1
    /\ UNCHANGED <<inputVars, serviceVars, concVars, pc, outcome, normVars, diffs, concepts_list, rlog,
                   diffVars>>

\* a loop iteration that calls retrieve_for_step; r1 and r2 are what the
\* collaborator does on the filtered and on the general query
ExplainStepWithRetrieval ==
    /\ pc = "explain"
    /\ i < ZipLen
    /\ LET step == processed_steps[i + 1]
           diff == diffs[i + 1]
           concepts == concepts_list[i + 1]
           top_k == top_k_knowledge(level)
       IN  /\ NeedsKnowledge(diff, concepts)
           /\ \E r1 \in Responses(top_k) : \E r2 \in Responses(top_k) :
                LET res == retrieve_for_step(concepts, step.source, top_k, r1, r2)
                IN  /\ rlog' = rlog \o [k \in 1..Len(res.calls) |->
                                           [step |-> i + 1, call |-> res.calls[k]]]
                    /\ loop_knowledge' = res.knowledge
                    /\ IF res.raised
                       THEN /\ pc' = "done"
                            /\ outcome' = "raised"
                            /\ UNCHANGED <<i, enriched>>
                       ELSE /\ enriched' = Append(enriched,
                                   EnrichedEntry(step,
                                       generate_explanation(step, diff, concepts,
                                                            res.knowledge, level)))
                            /\ i' = i + 1
                            /\ UNCHANGED <<pc, outcome>>
    /\ UNCHANGED <<inputVars, serviceVars, concVars, normVars, diffs, concepts_list, diffVars>>

\* return enriched
GenerateReturn ==
    /\ pc = "explain"
    /\ i = ZipLen
    /\ pc' = "done"
    /\ outcome' = "returned"
    /\ UNCHANGED <<inputVars, serviceVars, concVars, i, normVars, pipeVars, diffVars>>

Next ==
    \/ GenerateEmpty
    \/ ProcessTrace
    \/ ComputeTraceDiffs
    \/ ExtractTraceConcepts
    \/ ExplainStepWithoutRetrieval
    \/ ExplainStepWithRetrieval
    \/ GenerateReturn

Spec == Init /\ [][Next]_vars

\* C5: compute_trace_diffs returns one StateDiff per step: the first against
\* an absent previous snapshot, each later one against the snapshot of the
\* step before it.
C5_OneDiffPerStep ==
    pc \in {"extract_trace_concepts", "explain", "done"} =>
        /\ Len(diffs) = Len(processed_steps)
        /\ \A k \in 1..Len(diffs) :
              diffs[k] = compute_diff(IF k = 1 THEN <<>>
                                      ELSE <<processed_steps[k - 1].variables>>,
                                      processed_steps[k].variables, hash_order)

\* three steps, three diffs, the second of them with a created variable
C5_Witness ==
    /\ pc = "extract_trace_concepts"
    /\ Len(processed_steps) = 3
    /\ Len(diffs) = 3
    /\ NamesOf(diffs[2].created) = {"b"}
    /\ diffs[3].removed # <<>>

\* the calls made to the collaborator for step k, in order
CallsOf(k) == SelectSeq(rlog, LAMBDA e : e.step = k)

\* the retrieval of step k failed: its last query raised or returned nothing
RetrievalFailed(k) ==
    /\ CallsOf(k) # <<>>
    /\ LET last == CallsOf(k)[Len(CallsOf(k))].call.response
       IN  last.raises \/ last.chunks = <<>>

\* the knowledge step k was explained with
KnowledgeOf(k) ==
    IF CallsOf(k) = <<>> \/ RetrievalFailed(k) THEN <<>>
    ELSE CallsOf(k)[Len(CallsOf(k))].call.response.chunks

\* C10: whatever the retrieval does on whatever steps (raise, time out with
\* an exception, return nothing), every processed step gets an explanation;
\* a step whose retrieval failed gets the one built from an empty knowledge
\* list; the failure does not leave generate_step_explanations, and no query
\* is issued again.
C10_RetrievalFailureDegrades ==
    /\ outcome # "raised"
    /\ pc = "done" => Len(enriched) = Len(process_trace(code, raw_trace))
    /\ pc \in {"explain", "done"} =>
          \A k \in 1..Len(enriched) :
              /\ enriched[k].explanation # <<>>
              /\ enriched[k].explanation =
                     generate_explanation(processed_steps[k], diffs[k], concepts_list[k],
                                          KnowledgeOf(k), level)
              /\ Len(CallsOf(k)) <= 2
              /\ \A m \in 1..Len(CallsOf(k)) :
                    /\ (m < Len(CallsOf(k))) =>
                           /\ ~CallsOf(k)[m].call.response.raises
                           /\ CallsOf(k)[m].call.response.chunks = <<>>
                    /\ \A n \in 1..Len(CallsOf(k)) :
                           n # m => CallsOf(k)[n].call.fn # CallsOf(k)[m].call.fn

\* three steps explained: the query of the first raised, both queries of the
\* second returned nothing, the third got knowledge
C10_Witness ==
    /\ pc = "done"
    /\ Len(enriched) = 3
    /\ CallsOf(1) # <<>> /\ CallsOf(1)[1].call.response.raises
    /\ Len(CallsOf(2)) = 2 /\ RetrievalFailed(2)
    /\ CallsOf(3) # <<>> /\ ~RetrievalFailed(3)
    /\ enriched[1].explanation =
           generate_explanation(processed_steps[1], diffs[1], concepts_list[1], <<>>, level)
    /\ enriched[3].explanation #
           generate_explanation(processed_steps[3], diffs[3], concepts_list[3], <<>>, level)

-----------------------------------------------------------------------------
(* The enriched sequence against the raw trace *)

\* the raw indices from j on that are not redundant, `last` being the raw
\* index retained last (0: none yet)
RECURSIVE RetainedRaw(_, _, _)
RetainedRaw(raw, j, last) ==
    IF j > Len(raw) THEN <<>>
    ELSE IF last # 0 /\ SameLineAndSnapshot(raw[j], raw[last])
         THEN RetainedRaw(raw, j + 1, last)
         ELSE <<j>> \o RetainedRaw(raw, j + 1, j)

\* C11: generate_step_explanations returns one entry per retained step, in
\* the order of the raw trace, numbered 1..N, each with the line number and
\* the variable snapshot of its raw step; it never ends with fewer entries
\* or with an exception.
C11_OneEntryPerRetainedStep ==
    pc = "done" =>
        LET kept == RetainedRaw(raw_trace, 1, 0)
        IN  /\ outcome = "returned"
            /\ Len(enriched) = Len(kept)
            /\ \A k \in 1..Len(enriched) :
                  /\ enriched[k].step = k
                  /\ enriched[k].line = raw_trace[kept[k]].line
                  /\ enriched[k].variables = raw_trace[kept[k]].variables

\* a returned sequence of two entries for a raw trace of three steps, the
\* second of which was redundant
C11_Witness ==
    /\ pc = "done"
    /\ Len(raw_trace) = 3
    /\ RetainedRaw(raw_trace, 1, 0) = <<1, 3>>
    /\ Len(enriched) = 2
    /\ enriched[2].line = raw_trace[3].line
    /\ enriched[2].variables.keys # <<>>

-----------------------------------------------------------------------------
(* Two calls of generate_step_explanations on one StepExplainer, running   *)
(* in two threads                                                          *)

Threads == {1, 2}

\* the program each thread explains a trace of
ThreadCode(t) == IF t = 1 THEN PipeCode ELSE NormCode

ConcRawSteps ==
    { RawStep(AllKeys, 1, 1, "main", Dict1("a", IntV(5)), "line", 0),
      RawStep(AllKeys, 3, 3, "main", Dict2("a", IntV(5), "b", IntV(8)), "line", 0) }

\* the collaborator answers a query the same way whoever asks
KnowledgeBase(fn, concept_hint, top_k) ==
    IF fn = "retrieve_by_concept"
    THEN IF concept_hint = "assignment" THEN Returns(<<Chunk1>>) ELSE Returns(<<>>)
    ELSE Returns(Prefix(<<Chunk2, Chunk3, Chunk1>>, top_k))

\* the knowledge of one loop iteration
StepKnowledge(step, diff, concepts, lvl) ==
    IF NeedsKnowledge(diff, concepts)
    THEN LET top_k == top_k_knowledge(lvl)
             primary == select_primary_concept(concepts)
         IN  retrieve_for_step(concepts, step.source, top_k,
                 KnowledgeBase("retrieve_by_concept",
                               IF primary = <<>> THEN "" ELSE primary[1], top_k),
                 KnowledgeBase("retrieve", "", top_k)).knowledge
    ELSE <<>>

\* generate_step_explanations from the diffs on, for a processed trace
ExplainProcessed(processed, lvl, order) ==
    LET ds == compute_trace_diffs(processed, order)
        cs == extract_trace_concepts(processed, ds).value
    IN  [k \in 1..Min(Len(processed), Min(Len(ds), Len(cs))) |->
            EnrichedEntry(processed[k],
                generate_explanation(processed[k], ds[k], cs[k],
                    StepKnowledge(processed[k], ds[k], cs[k], lvl), lvl))]

InitConc ==
    /\ code = PipeCode
    /\ raw_trace = <<>>
    /\ level \in Levels
    /\ hash_order = Order1
    /\ pc = "threads"
    /\ outcome = "none"
    /\ IdleNorm /\ IdlePipe /\ IdleDiff /\ IdleServices
    /\ trace_processor = <<<<>>>>
    /\ running \in [Threads -> {[pc |-> "generate", code |-> c, trace |-> tr,
                                 processed |-> <<>>, enriched |-> <<>>] :
                                    c \in {PipeCode, NormCode},
                                    tr \in SeqsUpTo(ConcRawSteps, MaxTrace)}]
    /\ \A t \in Threads : running[t].code = ThreadCode(t)

\* the variables of the single-call specifications
seqVars == <<inputVars, serviceVars, pc, i, outcome, normVars, pipeVars, diffVars>>

\* if not trace: return []
ThreadGenerateEmpty(t) ==
    /\ running[t].pc = "generate"
    /\ running[t].trace = <<>>
    /\ running' = [running EXCEPT ![t].pc = "done"]
    /\ UNCHANGED <<trace_processor, seqVars>>

\* self.trace_processor = TraceProcessor(code)
ThreadNewTraceProcessor(t) ==
    /\ running[t].pc = "generate"
    /\ running[t].trace # <<>>
    /\ trace_processor' = running[t].code
    /\ running' = [running EXCEPT ![t].pc = "process_trace"]
    /\ UNCHANGED seqVars

\* processed = self.trace_processor.process_trace(trace)
ThreadProcessTrace(t) ==
    /\ running[t].pc = "process_trace"
    /\ running' = [running EXCEPT
                      ![t].processed = process_trace(trace_processor, running[t].trace),
                      ![t].pc = "explain"]
    /\ UNCHANGED <<trace_processor, seqVars>>

\* the rest of the call, on the thread's own locals
ThreadExplain(t) ==
    /\ running[t].pc = "explain"
    /\ running' = [running EXCEPT
                      ![t].enriched = ExplainProcessed(running[t].processed, level,
                                                       hash_order),
                      ![t].pc = "done"]
    /\ UNCHANGED <<trace_processor, seqVars>>

GenerateEmptyInThread == \E t \in Threads : ThreadGenerateEmpty(t)
NewTraceProcessorInThread == \E t \in Threads : ThreadNewTraceProcessor(t)
ProcessTraceInThread == \E t \in Threads : ThreadProcessTrace(t)
ExplainInThread == \E t \in Threads : ThreadExplain(t)

NextConc ==
    \/ GenerateEmptyInThread
    \/ NewTraceProcessorInThread
    \/ ProcessTraceInThread
    \/ ExplainInThread

SpecConc == InitConc /\ [][NextConc]_vars

\* what the call returns when it runs alone
GenerateAlone(c, trace, lvl, order) ==
    IF trace = <<>> THEN <<>>
    ELSE ExplainProcessed(process_trace(c, trace), lvl, order)

\* C12: each of two calls interleaved on one StepExplainer returns the
\* enriched sequence it returns when it runs alone, and the source text of
\* each of its processed steps is a line of its own program.
C12_ConcurrentEqualsAlone ==
    \A t \in Threads :
        running[t].pc = "done" =>
            /\ running[t].enriched =
                   GenerateAlone(running[t].code, running[t].trace, level, hash_order)
            /\ \A k \in 1..Len(running[t].processed) :
                  running[t].processed[k].source =
                      get_line_content(running[t].code, running[t].processed[k].line)

\* what does hold: the entries' step, line and variables are those of the
\* call run alone; only the text derived from the source line can differ
C12_SameStepsAsAlone ==
    \A t \in Threads :
        running[t].pc = "done" =>
            LET alone == GenerateAlone(running[t].code, running[t].trace, level,
                                       hash_order)
            IN  /\ Len(running[t].enriched) = Len(alone)
                /\ \A k \in 1..Len(alone) :
                      /\ running[t].enriched[k].step = alone[k].step
                      /\ running[t].enriched[k].line = alone[k].line
                      /\ running[t].enriched[k].variables = alone[k].variables

-----------------------------------------------------------------------------
(* When the collaborator is queried, and with what *)

\* C13: during generate_step_explanations the retrieval collaborator is
\* called for a step only if the step's StateDiff has a change and its
\* concept list is not empty; for any other step no call is made.
C13_QueryOnlyForChangedSteps ==
    /\ \A n \in 1..Len(rlog) :
          /\ rlog[n].step \in 1..Len(processed_steps)
          /\ diffs[rlog[n].step].created \o diffs[rlog[n].step].modified
                 \o diffs[rlog[n].step].removed # <<>>
          /\ concepts_list[rlog[n].step] # <<>>
    /\ \A k \in 1..Len(enriched) :
          (\/ diffs[k].created \o diffs[k].modified \o diffs[k].removed = <<>>
           \/ concepts_list[k] = <<>>)
              => CallsOf(k) = <<>> /\ KnowledgeOf(k) = <<>>

\* a finished call in which a step with a change was queried for and a step
\* without a change, though it has concepts, was not
C13_Witness ==
    /\ pc = "done"
    /\ Len(enriched) = 3
    /\ \E k \in 1..3 : \E m \in 1..3 :
          /\ has_changes(diffs[k]) /\ CallsOf(k) # <<>>
          /\ ~has_changes(diffs[m]) /\ concepts_list[m] # <<>> /\ CallsOf(m) = <<>>
\* C14: retrieve_for_step, given concepts, issues the concept-filtered query
\* first; it issues the unfiltered query, with the same query text and the
\* same result bound, exactly when the filtered query returned an empty list,
\* and then returns the unfiltered result; a non-empty filtered result is
\* returned with no unfiltered query.
C14_FilteredThenUnfiltered ==
    (pc \in {"explain", "done"} /\ i >= 1 /\ CallsOf(i) # <<>>) =>
        LET cs == CallsOf(i)
            first == cs[1].call
            query == build_query(concepts_list[i], processed_steps[i].source)
        IN  /\ first.fn = "retrieve_by_concept"
            /\ first.query = query
            /\ <<first.concept_hint>> = select_primary_concept(concepts_list[i])
            /\ first.top_k = top_k_knowledge(level)
            /\ Len(cs) <= 2
            /\ Len(cs) = 2 <=> (~first.response.raises /\ first.response.chunks = <<>>)
            /\ Len(cs) = 2 =>
                  /\ cs[2].call.fn = "retrieve"
                  /\ cs[2].call.query = query
                  /\ cs[2].call.top_k = first.top_k
                  /\ ~cs[2].call.response.raises =>
                         loop_knowledge = cs[2].call.response.chunks
            /\ first.response.chunks # <<>> => loop_knowledge = first.response.chunks

\* the first step was answered by the filtered query alone, the second by the
\* unfiltered query after an empty filtered result
C14_Witness ==
    /\ pc = "explain"
    /\ i = 2
    /\ Len(CallsOf(1)) = 1 /\ CallsOf(1)[1].call.response.chunks # <<>>
    /\ Len(CallsOf(2)) = 2
    /\ CallsOf(2)[1].call.response = Returns(<<>>)
    /\ CallsOf(2)[2].call.fn = "retrieve"
    /\ loop_knowledge = CallsOf(2)[2].call.response.chunks
    /\ loop_knowledge # <<>>

-----------------------------------------------------------------------------
(* extract_trace_concepts on traces whose steps show every signal *)

\* "sum_val = a + b", "if a >= b:", "return xs", "xs.append(1)", "while a != b:"
ExtractCode ==
    << <<"s", "u", "m", "_", "v", "a", "l", " ", "=", " ", "a", " ", "+", " ", "b">>,
       <<"i", "f", " ", "a", " ", ">", "=", " ", "b", ":">>,
       <<"r", "e", "t", "u", "r", "n", " ", "x", "s">>,
       <<"x", "s", ".", "a", "p", "p", "e", "n", "d", "(", "1", ")">>,
       <<"w", "h", "i", "l", "e", " ", "a", " ", "!", "=", " ", "b", ":">> >>

\* snapshots that differ by a numeric change, a created list, a list that
\* grows and shrinks (one of them a tuple), created values of every type and
\* a removed variable; events and depths that rise and fall
ExtractRawSteps ==
    { RawStep(AllKeys, 1, 1, "main", Dict1("a", IntV(1)), "line", 0),
      RawStep(AllKeys, 2, 1, "main", Dict2("a", IntV(2), "b", ListV(<<IntV(1)>>)),
              "line", 0),
      RawStep(AllKeys, 3, 4, "f",
              Dict2("a", IntV(2), "b", TupleV(<<IntV(1), IntV(2)>>)), "call", 1),
      RawStep(AllKeys, 4, 4, "f", Dict2("a", BoolV(1), "b", ListV(<<>>)), "line", 1),
      RawStep(AllKeys, 5, 3, "f", Dict1("a", IntV(2)), "return", 0),
      RawStep(AllKeys, 6, 2, "main", Dict1("a", IntV(2)), "line", 0),
      RawStep(AllKeys, 7, 5, "main", Dict2("b", DictV(<<>>), "c", StrV(1)), "call", 0),
      RawStep(AllKeys, 8, 3, "main", Dict2("b", NoneV, "c", ObjV(1)), "line", 1) }

InitExtract ==
    /\ code = ExtractCode
    /\ raw_trace \in SeqsUpTo(ExtractRawSteps, MaxTrace)
    /\ level = "medium"
    /\ hash_order \in {Order1, Order2}
    /\ pc = "extract_trace_concepts"
    /\ outcome = "none"
    /\ i = 0
    /\ processed_steps = process_trace(code, raw_trace)
    /\ prev_step = <<>>
    /\ retained = <<>>
    /\ diffs = compute_trace_diffs(processed_steps, hash_order)
    /\ concepts_list = <<>>
    /\ enriched = <<>>
    /\ rlog = <<>>
    /\ loop_knowledge = <<>>
    /\ IdleConc
    /\ IdleDiff /\ IdleServices

SpecExtract == InitExtract /\ [][NextConcepts]_vars

\* extract_trace_concepts has returned the tags of every step
Extracted ==
    /\ pc = "extract_trace_concepts_done"
    /\ outcome = "returned"
    /\ Len(concepts_list) = Len(processed_steps)

\* the tags returned for step k
TagsOf(k) == Range(concepts_list[k])

\* the depth the event signal of step k compares with
PrevDepth(k) == IF k = 1 THEN 0 ELSE processed_steps[k - 1].call_stack_depth

\* the characters of each tag
Spelling ==
    [arithmetic |-> <<"a", "r", "i", "t", "h", "m", "e", "t", "i", "c">>,
     assignment |-> <<"a", "s", "s", "i", "g", "n", "m", "e", "n", "t">>,
     comparison |-> <<"c", "o", "m", "p", "a", "r", "i", "s", "o", "n">>,
     conditional |-> <<"c", "o", "n", "d", "i", "t", "i", "o", "n", "a", "l">>,
     dictionary |-> <<"d", "i", "c", "t", "i", "o", "n", "a", "r", "y">>,
     exception_handling |-> <<"e", "x", "c", "e", "p", "t", "i", "o", "n", "_", "h", "a", "n", "d", "l", "i", "n", "g">>,
     function_call |-> <<"f", "u", "n", "c", "t", "i", "o", "n", "_", "c", "a", "l", "l">>,
     function_return |-> <<"f", "u", "n", "c", "t", "i", "o", "n", "_", "r", "e", "t", "u", "r", "n">>,
     indexing |-> <<"i", "n", "d", "e", "x", "i", "n", "g">>,
     iteration |-> <<"i", "t", "e", "r", "a", "t", "i", "o", "n">>,
     list |-> <<"l", "i", "s", "t">>,
     list_append |-> <<"l", "i", "s", "t", "_", "a", "p", "p", "e", "n", "d">>,
     list_comprehension |-> <<"l", "i", "s", "t", "_", "c", "o", "m", "p", "r", "e", "h", "e", "n", "s", "i", "o", "n">>,
     list_removal |-> <<"l", "i", "s", "t", "_", "r", "e", "m", "o", "v", "a", "l">>,
     logical_operation |-> <<"l", "o", "g", "i", "c", "a", "l", "_", "o", "p", "e", "r", "a", "t", "i", "o", "n">>,
     mutation |-> <<"m", "u", "t", "a", "t", "i", "o", "n">>,
     numeric |-> <<"n", "u", "m", "e", "r", "i", "c">>,
     scope |-> <<"s", "c", "o", "p", "e">>,
     string |-> <<"s", "t", "r", "i", "n", "g">>]

\* the order of the characters of the tags: '_' sorts before the letters
CharRank(c) ==
    IF c = "_" THEN 0 ELSE CHOOSE n \in 1..Len(LowerLetters) : LowerLetters[n] = c

\* s < t as Python orders strings
RECURSIVE LexLess(_, _)
LexLess(s, t) ==
    IF t = <<>> THEN FALSE
    ELSE IF s = <<>> THEN TRUE
    ELSE IF s[1] = t[1] THEN LexLess(Tail(s), Tail(t))
    ELSE CharRank(s[1]) < CharRank(t[1])

\* C15: extract_concepts returns, for every step, diff and previous step, a
\* list without duplicates, in sorted order, holding exactly the tags of the
\* lexical, the state-diff and the event/depth signal; for the source line
\* `sum_val = a + b` it holds at least 'assignment' and 'arithmetic'.
C15_SortedUnionOfSignals ==
    Extracted =>
        \A k \in 1..Len(concepts_list) :
            LET tags == concepts_list[k]
                step == processed_steps[k]
            IN  /\ \A m \in 1..Len(tags) : \A n \in 1..Len(tags) :
                      m < n => LexLess(Spelling[tags[m]], Spelling[tags[n]])
                /\ Range(tags) =
                       detect_from_source(step.source)
                           \cup detect_from_state_diff(diffs[k])
                           \cup detect_from_event(step.event, PrevDepth(k),
                                                  step.call_stack_depth)
                /\ step.source = ExtractCode[1] =>
                       {"assignment", "arithmetic"} \subseteq Range(tags)

\* a step on `sum_val = a + b` whose tags come from more than one signal:
\* 'assignment' and 'arithmetic' from the line and from the diff as well
C15_Witness ==
    /\ Extracted
    /\ \E k \in 1..Len(concepts_list) :
          /\ processed_steps[k].source = ExtractCode[1]
          /\ {"assignment", "arithmetic"} \subseteq detect_from_source(processed_steps[k].source)
          /\ {"assignment", "arithmetic"} \subseteq detect_from_state_diff(diffs[k])
          /\ Len(concepts_list[k]) = 4

\* the modified variables of step k whose old and new value are both lists
ListChanges(k) ==
    {n \in 1..Len(diffs[k].modified) :
        /\ diffs[k].modified[n].old_value.t = "list"
        /\ diffs[k].modified[n].new_value.t = "list"}

Grew(change) == Len(change.new_value.items) > Len(change.old_value.items)
Shrank(change) == Len(change.new_value.items) < Len(change.old_value.items)

\* C16: a diff with a modified variable contributes 'mutation'; 'arithmetic'
\* too when old and new value of a modified variable are numeric; 'growth'
\* (resp. 'shrink') when both are ordered collections and the new one is
\* longer (resp. shorter).
C16_ModifiedTags ==
    Extracted =>
        \A k \in 1..Len(concepts_list) :
            diffs[k].modified # <<>> =>
                /\ "mutation" \in TagsOf(k)
                /\ (\E n \in 1..Len(diffs[k].modified) :
                        /\ IsNumeric(diffs[k].modified[n].old_value)
                        /\ IsNumeric(diffs[k].modified[n].new_value))
                       => "arithmetic" \in TagsOf(k)
                /\ (\E n \in ListChanges(k) : Grew(diffs[k].modified[n]))
                       => "growth" \in TagsOf(k)
                /\ (\E n \in ListChanges(k) : Shrank(diffs[k].modified[n]))
                       => "shrink" \in TagsOf(k)

\* what the code emits for a modified variable: the tags of C16 with
\* 'list_append' for a longer and 'list_removal' for a shorter list
C16_ModifiedTagsOfTheCode ==
    Extracted =>
        \A k \in 1..Len(concepts_list) :
            diffs[k].modified # <<>> =>
                /\ "mutation" \in TagsOf(k)
                /\ (\E n \in 1..Len(diffs[k].modified) :
                        /\ IsNumeric(diffs[k].modified[n].old_value)
                        /\ IsNumeric(diffs[k].modified[n].new_value))
                       => "arithmetic" \in TagsOf(k)
                /\ (\E n \in ListChanges(k) : Grew(diffs[k].modified[n]))
                       => "list_append" \in TagsOf(k)
                /\ (\E n \in ListChanges(k) : Shrank(diffs[k].modified[n]))
                       => "list_removal" \in TagsOf(k)
                /\ TagsOf(k) \cap {"growth", "shrink"} = {}

\* the vocabulary of concept tags
ConceptTagVocabulary ==
    {"assignment", "arithmetic", "comparison", "logical_operation", "conditional",
     "iteration", "function_call", "function_return", "exception_handling",
     "indexing", "mapping", "text", "list_comprehension", "mutation", "growth",
     "shrink", "scope_exit", "numeric", "ordered_collection"}

\* the value category of a created value, <<>> when it has none
ValueCategory(v) ==
    IF v.t \in {"list", "tuple"} THEN <<"ordered_collection">>
    ELSE IF v.t = "dict" THEN <<"mapping">>
    ELSE IF v.t \in {"int", "float"} THEN <<"numeric">>
    ELSE IF v.t = "str" THEN <<"text">>
    ELSE <<>>

\* C17: a diff with a created variable contributes 'assignment' and, for each
\* created value, the tag of its category (ordered_collection, mapping,
\* numeric, text); a diff with a removed variable contributes 'scope_exit';
\* every tag emitted belongs to the vocabulary.
C17_CreatedAndRemovedTags ==
    Extracted =>
        \A k \in 1..Len(concepts_list) :
            /\ diffs[k].created # <<>> =>
                  /\ "assignment" \in TagsOf(k)
                  /\ \A n \in 1..Len(diffs[k].created) :
                        Range(ValueCategory(diffs[k].created[n].new_value))
                            \subseteq TagsOf(k)
            /\ diffs[k].removed # <<>> => "scope_exit" \in TagsOf(k)
            /\ TagsOf(k) \subseteq ConceptTagVocabulary

\* C18: extract_concepts includes 'function_call' whenever the depth is
\* greater than the previous step's (0 for the first step) or the event is
\* 'call', 'function_return' whenever the depth is smaller or the event is
\* 'return', and 'function_return' in no other case.
C18_CallAndReturnTags ==
    Extracted =>
        \A k \in 1..Len(concepts_list) :
            LET step == processed_steps[k]
                deeper == step.call_stack_depth > PrevDepth(k)
                shallower == step.call_stack_depth < PrevDepth(k)
            IN  /\ (deeper \/ step.event = "call") => "function_call" \in TagsOf(k)
                /\ (shallower \/ step.event = "return") <=> "function_return" \in TagsOf(k)

\* a 'call' event at the depth of the step before it, a 'return' event, and
\* a line `return xs` that is no return event and yields no 'function_return'
C18_Witness ==
    /\ Extracted
    /\ Len(processed_steps) = 3
    /\ processed_steps[1].event = "call"
    /\ processed_steps[1].call_stack_depth = 0
    /\ "function_call" \in TagsOf(1)
    /\ processed_steps[2].source = ExtractCode[3]
    /\ processed_steps[2].event = "line"
    /\ "function_return" \notin TagsOf(2)
    /\ processed_steps[3].event = "return"
    /\ "function_return" \in TagsOf(3)

\* every '=' of the line is part of ==, !=, <= or >=, and there is one
EqualsOnlyInComparisons(s) ==
    /\ Contains(s, <<"=">>)
    /\ \A q \in 1..Len(s) :
          s[q] = "=" =>
              \/ q > 1 /\ s[q - 1] \in {"=", "!", "<", ">"}
              \/ q < Len(s) /\ s[q + 1] = "="

\* C19: a line whose '=' characters all belong to comparison operators gets
\* no 'assignment' tag from the lexical signal (seen on the steps whose diff
\* created nothing, where the tag can come from the line only).
C19_ComparisonIsNoAssignment ==
    Extracted =>
        \A k \in 1..Len(concepts_list) :
            (EqualsOnlyInComparisons(processed_steps[k].source) /\ diffs[k].created = <<>>)
                => "assignment" \notin TagsOf(k)

\* what the code excludes: lines holding == or !=
C19_EqualityIsNoAssignment ==
    Extracted =>
        \A k \in 1..Len(concepts_list) :
            (/\ \/ Contains(processed_steps[k].source, <<"=", "=">>)
                \/ Contains(processed_steps[k].source, <<"!", "=">>)
             /\ diffs[k].created = <<>>)
                => "assignment" \notin TagsOf(k)

-----------------------------------------------------------------------------
(* Which retrieved passages an explanation depends on *)

\* the explanation of step k had the retrieval returned the first n passages only
ExplanationFromFirst(k, n) ==
    generate_explanation(processed_steps[k], diffs[k], concepts_list[k],
                         Prefix(KnowledgeOf(k), n), level)

\* C20: the insight segment of a step's explanation is derived from the
\* first retrieved passage only: a retrieval result with the same first
\* passage and other (or no) later passages gives the same explanation, at
\* every level.
C20_FirstPassageOnly ==
    pc \in {"explain", "done"} =>
        \A k \in 1..Len(enriched) :
            enriched[k].explanation = ExplanationFromFirst(k, 1)

\* what the code guarantees: the passages after the second do not matter
C20_FirstTwoPassagesOnly ==
    pc \in {"explain", "done"} =>
        \A k \in 1..Len(enriched) :
            enriched[k].explanation = ExplanationFromFirst(k, 2)

\* a step explained from a retrieval of three passages
C20_ThreePassagesReached ==
    /\ pc = "done"
    /\ \E k \in 1..Len(enriched) :
          /\ Len(KnowledgeOf(k)) = 3
          /\ enriched[k].explanation # ExplanationFromFirst(k, 1)

-----------------------------------------------------------------------------
(* What an explanation says about the variables of its step *)

\* the templates whose first slot is the name of a variable
NamingTemplates ==
    {"beginner_created", "beginner_modified", "medium_created_one", "medium_created",
     "medium_modified", "interview_created_list", "interview_created_dict",
     "interview_created_numeric", "interview_created_str", "interview_created_other",
     "interview_list_grew", "interview_list_reduced", "interview_list_mutated",
     "interview_dict_mutated", "interview_reassigned"}

\* the templates whose first slot is a name and whose second is its value
NameAndValueTemplates ==
    {"beginner_created", "medium_created_one", "medium_created",
     "interview_created_numeric", "interview_created_str", "interview_created_other"}

\* the variables an explanation names
NamedIn(explanation) ==
    {explanation[n].args[1][1] :
        n \in {m \in 1..Len(explanation) : explanation[m].tmpl \in NamingTemplates}}

\* the explanation says that variable `name` has the value written `text`
SaysValue(explanation, name, text) ==
    \E n \in 1..Len(explanation) :
        /\ explanation[n].tmpl \in NameAndValueTemplates
        /\ explanation[n].args[1] = <<name>>
        /\ explanation[n].args[2] = text

\* C21: at beginner level the explanation of a step with state changes
\* names every created, every modified and every removed variable of the
\* step's StateDiff.
C21_BeginnerNamesEveryVariable ==
    (level = "beginner" /\ pc \in {"explain", "done"}) =>
        \A k \in 1..Len(enriched) :
            has_changes(diffs[k]) =>
                NamesOf(diffs[k].created) \cup NamesOf(diffs[k].modified)
                    \cup NamesOf(diffs[k].removed) \subseteq NamedIn(enriched[k].explanation)

\* what the code does: the created and the modified variables are named
C21_BeginnerNamesCreatedAndModified ==
    (level = "beginner" /\ pc \in {"explain", "done"}) =>
        \A k \in 1..Len(enriched) :
            has_changes(diffs[k]) =>
                NamedIn(enriched[k].explanation) =
                    NamesOf(diffs[k].created) \cup NamesOf(diffs[k].modified)

\* step k adds exactly one variable, a number, to the snapshot before it
AddsOneNumber(k) ==
    /\ Len(diffs[k].created) = 1
    /\ diffs[k].created[1].new_value.t \in {"int", "float"}
    /\ diffs[k].modified = <<>>
    /\ diffs[k].removed = <<>>

\* how Python writes a number
NumberText(v) ==
    IF v.t = "int" THEN <<ToString(v.n)>> ELSE <<ToString(v.n), ".", "0">>

\* C22: the explanation of a step that adds exactly one new numeric variable
\* holds the variable's name and its value, at every level, whatever the
\* retrieval returns or fails with.
C22_NewNumberNamedWithValue ==
    pc \in {"explain", "done"} =>
        \A k \in 1..Len(enriched) :
            AddsOneNumber(k) =>
                SaysValue(enriched[k].explanation, diffs[k].created[1].name,
                          NumberText(diffs[k].created[1].new_value))

\* at interview_ready level, b = 8 was added by the second step while the
\* retrieval for that step raised
C22_Witness ==
    /\ pc = "done"
    /\ level = "interview_ready"
    /\ Len(enriched) >= 2
    /\ AddsOneNumber(2)
    /\ diffs[2].created[1].name = "b"
    /\ SaysValue(enriched[2].explanation, "b", <<"8">>)
    /\ CallsOf(2) # <<>> /\ CallsOf(2)[1].call.response.raises

\* C23: for an empty raw trace process_trace, compute_trace_diffs and
\* generate_step_explanations return an empty sequence, raise nothing, and
\* the retrieval collaborator is not called.
C23_EmptyTraceEmptyResult ==
    (raw_trace = <<>> /\ pc = "done") =>
        /\ outcome = "returned"
        /\ enriched = <<>>
        /\ rlog = <<>>
        /\ process_trace(code, raw_trace) = <<>>
        /\ compute_trace_diffs(process_trace(code, raw_trace), hash_order) = <<>>

C23_Witness ==
    /\ raw_trace = <<>>
    /\ pc = "done"
    /\ outcome = "returned"
    /\ enriched = <<>>


-----------------------------------------------------------------------------
(* TraceProcessor.get_execution_context: the source lines around a step *)

MaxWindow == 3

Max(x, y) == IF x > y THEN x ELSE y

\* a step as get_execution_context receives it: a dict holding the keys of `present`
ContextStep(present, line, source, function, depth) ==
    [present |-> present, line |-> line, source |-> source, function |-> function,
     call_stack_depth |-> depth]

\* for i in range(start_line, end_line + 1): context_lines.append({...})
ContextLines(code_lines, line_num, start_line, end_line) ==
    [k \in 1..Max(0, end_line - start_line + 1) |->
        [line_num |-> start_line + k - 1,
         content |-> get_line_content(code_lines, start_line + k - 1),
         is_current |-> (start_line + k - 1 = line_num)]]

\* mutant: the window is not clipped to the last line of the file
get_execution_context_unclipped(code_lines, step, w) ==
    [current_line |-> Get(step, "line", 0),
     current_source |-> Get(step, "source", <<>>),
     context_window |-> ContextLines(code_lines, Get(step, "line", 0),
                                     Max(1, Get(step, "line", 0) - w),
                                     Get(step, "line", 0) + w),
     function |-> Get(step, "function", "main"),
     depth |-> Get(step, "call_stack_depth", 0)]

get_execution_context(code_lines, step, w) ==
    [current_line |-> Get(step, "line", 0),
     current_source |-> Get(step, "source", <<>>),
     context_window |-> ContextLines(code_lines, Get(step, "line", 0),
                                     Max(1, Get(step, "line", 0) - w),
                                     Min(Len(code_lines), Get(step, "line", 0) + w)),
     function |-> Get(step, "function", "main"),
     depth |-> Get(step, "call_stack_depth", 0)]

\* TraceProcessor(""), a three-line and a five-line program
ContextCode ==
    { <<<<>>>>, NormCode, PipeCode \o <<<<"x">>>> }

ContextSteps(code_lines) ==
    { ContextStep(present, line, get_line_content(code_lines, line), "main", 0) :
        present \in {{}, {"line"}, {"line", "source", "function", "call_stack_depth"}},
        line \in (0 - 2)..(Len(code_lines) + 2) }

InitContext ==
    /\ code \in ContextCode
    /\ raw_trace = <<>>
    /\ level = "medium"
    /\ hash_order = Order1
    /\ pc = "get_execution_context"
    /\ i = 0
    /\ outcome = "none"
    /\ IdleNorm /\ IdlePipe /\ IdleConc /\ IdleDiff
    /\ context_step \in {<<st>> : st \in ContextSteps(code)}
    /\ window \in (0 - 1)..MaxWindow
    /\ context = <<>>
    /\ IdleTracer /\ IdleDb

GetExecutionContext ==
    /\ pc = "get_execution_context"
    /\ context' = <<get_execution_context(code, context_step[1], window)>>
    /\ pc' = "done"
    /\ outcome' = "returned"
    /\ UNCHANGED <<inputVars, i, normVars, pipeVars, concVars, diffVars,
                   context_step, window, tracerVars, dbVars>>

NextContext == GetExecutionContext

SpecContext == InitContext /\ [][NextContext]_vars

\* the line of the step get_execution_context was called with
ContextLine == Get(context_step[1], "line", 0)

ContextWindow == context[1].context_window

\* C24: for a window w >= 0 the context holds at most 2w+1 entries, their line
\* numbers are consecutive and lie within 1..(number of source lines), they are
\* exactly the lines of line-w..line+w that exist in the file, and exactly one
\* entry is flagged current when the step's line lies within the file, none
\* otherwise
C24_ContextWindowClipped ==
    (context # <<>> /\ window >= 0) =>
        /\ Len(ContextWindow) <= 2 * window + 1
        /\ \A k \in 1..Len(ContextWindow) :
              /\ ContextWindow[k].line_num \in 1..Len(code)
              /\ k > 1 => ContextWindow[k].line_num = ContextWindow[k - 1].line_num + 1
              /\ ContextWindow[k].content = get_line_content(code, ContextWindow[k].line_num)
        /\ {ContextWindow[k].line_num : k \in 1..Len(ContextWindow)}
              = (ContextLine - window)..(ContextLine + window) \cap 1..Len(code)
        /\ Cardinality({k \in 1..Len(ContextWindow) : ContextWindow[k].is_current})
              = IF ContextLine \in 1..Len(code) THEN 1 ELSE 0
        /\ \A k \in 1..Len(ContextWindow) :
              ContextWindow[k].is_current <=> ContextWindow[k].line_num = ContextLine

\* a window cut at both ends of the file, with its current line flagged
C24_Witness ==
    /\ context # <<>>
    /\ window = 2
    /\ Len(code) = 3
    /\ ContextLine = 2
    /\ Len(ContextWindow) = 3
    /\ ContextWindow[2].is_current

\* a step beyond the end of the file: lines in the context, none flagged
C24_WitnessOutside ==
    /\ context # <<>>
    /\ ContextLine = Len(code) + 1
    /\ Len(ContextWindow) > 0
    /\ \A k \in 1..Len(ContextWindow) : ~ContextWindow[k].is_current


-----------------------------------------------------------------------------
(* The tracer: python_tracer_template.py as assembled by inject_python_tracer *)

MAX_STEPS == 200

\* the number of lines of python_tracer_template.py
TemplateLines == 150

\* len(_prefix_probe.splitlines()): the template, a blank line, the two range
\* assignments, a blank line, the two settrace lines, a blank line, the comment
\* line and "try:"
PrefixLines == TemplateLines + 9

\* user_code_start and user_code_end for a program of n lines
inject_python_tracer(n) ==
    [USER_CODE_START |-> PrefixLines + 1,
     USER_CODE_END |-> PrefixLines + 1 + n - 1]

\* names of the model that start with "__", and those that start with "_"
DunderNames == {"__name__"}
UnderscoreNames == DunderNames \cup {"_final_frame"}

HARNESS_VARS ==
    {"sys", "json", "MAX_STEPS", "TRACE_DATA", "STEP", "CALL_STACK",
     "USER_CODE_START", "USER_CODE_END", "tracer", "_HARNESS_VARS", "_exc", "_tb"}

\* a frame object: the line it stands on, its code name, its file and its locals
Frame(f_lineno, co_name, co_filename, f_locals) ==
    [f_lineno |-> f_lineno, co_name |-> co_name, co_filename |-> co_filename,
     f_locals |-> f_locals]

\* the module globals: harness names, dunder names and one user variable
ModuleLocals ==
    MkDict(<<"__name__", "sys", "STEP", "a">>,
           [k \in {"__name__", "sys", "STEP", "a"} |->
               IF k = "a" THEN IntV(5)
               ELSE IF k = "STEP" THEN IntV(0)
               ELSE IF k = "sys" THEN ObjV("sys") ELSE StrV("__main__")])

FunctionLocals == Dict1("n", IntV(1))

\* for k, v in all_vars.items(): skip harness and dunder names; serialize(v)
\* leaves None, int, float, str and bool as they are
CaptureVariables(f_locals) ==
    MkDict(SelectSeq(f_locals.keys, LAMBDA k : k \notin HARNESS_VARS /\ k \notin DunderNames),
           f_locals.val)

\* the tracer's globals
TracerGlobals(start, end, data, stepno, depth, installed) ==
    [USER_CODE_START |-> start, USER_CODE_END |-> end, TRACE_DATA |-> data,
     STEP |-> stepno, CALL_STACK |-> depth, settrace |-> installed]

TraceEntry(stepno, line, function, event, depth, variables) ==
    [step |-> stepno, line |-> line, function |-> function, event |-> event,
     call_stack_depth |-> depth, variables |-> variables]

InUserCode(g, frame) ==
    g.USER_CODE_START <= frame.f_lineno /\ frame.f_lineno <= g.USER_CODE_END

\* mutant: the step limit is tested with > instead of >=
tracer_limit_off_by_one(g, frame, event) ==
    IF event = "call"
    THEN IF InUserCode(g, frame) THEN [g EXCEPT !.CALL_STACK = @ + 1] ELSE g
    ELSE IF event = "return"
    THEN IF InUserCode(g, frame) THEN [g EXCEPT !.CALL_STACK = Max(0, @ - 1)] ELSE g
    ELSE IF event \in {"line", "exception"}
    THEN IF ~InUserCode(g, frame) THEN g
         ELSE IF g.STEP > MAX_STEPS THEN [g EXCEPT !.settrace = <<>>]
         ELSE [g EXCEPT
                 !.STEP = @ + 1,
                 !.TRACE_DATA = Append(@,
                     TraceEntry(g.STEP + 1, frame.f_lineno - g.USER_CODE_START + 1,
                                frame.co_name, event, g.CALL_STACK,
                                CaptureVariables(frame.f_locals)))]
    ELSE g

\* mutant: a return lowers the depth without the floor of 0
tracer_depth_unfloored(g, frame, event) ==
    IF event = "call"
    THEN IF InUserCode(g, frame) THEN [g EXCEPT !.CALL_STACK = @ + 1] ELSE g
    ELSE IF event = "return"
    THEN IF InUserCode(g, frame) THEN [g EXCEPT !.CALL_STACK = @ - 1] ELSE g
    ELSE IF event \in {"line", "exception"}
    THEN IF ~InUserCode(g, frame) THEN g
         ELSE IF g.STEP >= MAX_STEPS THEN [g EXCEPT !.settrace = <<>>]
         ELSE [g EXCEPT
                 !.STEP = @ + 1,
                 !.TRACE_DATA = Append(@,
                     TraceEntry(g.STEP + 1, frame.f_lineno - g.USER_CODE_START + 1,
                                frame.co_name, event, g.CALL_STACK,
                                CaptureVariables(frame.f_locals)))]
    ELSE g

\* tracer(frame, event, arg): the globals after the call
tracer(g, frame, event) ==
    IF event = "call"
    THEN IF InUserCode(g, frame) THEN [g EXCEPT !.CALL_STACK = @ + 1] ELSE g
    ELSE IF event = "return"
    THEN IF InUserCode(g, frame) THEN [g EXCEPT !.CALL_STACK = Max(0, @ - 1)] ELSE g
    ELSE IF event \in {"line", "exception"}
    THEN IF ~InUserCode(g, frame) THEN g
         ELSE IF g.STEP >= MAX_STEPS THEN [g EXCEPT !.settrace = <<>>]
         ELSE [g EXCEPT
                 !.STEP = @ + 1,
                 !.TRACE_DATA = Append(@,
                     TraceEntry(g.STEP + 1, frame.f_lineno - g.USER_CODE_START + 1,
                                frame.co_name, event, g.CALL_STACK,
                                CaptureVariables(frame.f_locals)))]
    ELSE g

\* the finally block of the assembled script: the snapshot appended after the run
FinalEntry(g) ==
    TraceEntry(g.STEP + 1, g.USER_CODE_END - g.USER_CODE_START + 1, "<module>", "final", 0,
               MkDict(SelectSeq(ModuleLocals.keys,
                                LAMBDA k : k \notin HARNESS_VARS /\ k \notin UnderscoreNames),
                      ModuleLocals.val))

EventKinds == {"call", "return", "line", "exception"}

\* what the interpreter reports: events of the assembled script on the line
\* before the user code, its first and last line and the line after it, and
\* events of library code whose line numbers happen to lie in the same range
TraceEventsOf(n) ==
    LET r == inject_python_tracer(n) IN
    { [event |-> kind,
       frame |-> Frame(l, IF kind \in {"call", "return"} THEN "f" ELSE "<module>", "<string>",
                       IF kind \in {"call", "return"} THEN FunctionLocals ELSE ModuleLocals)] :
        kind \in EventKinds,
        l \in {r.USER_CODE_START - 1, r.USER_CODE_START, r.USER_CODE_END, r.USER_CODE_END + 1} }
    \cup
    { [event |-> kind, frame |-> Frame(r.USER_CODE_START, "getline", "linecache.py", FunctionLocals)] :
        kind \in {"call", "line"} }

Recordable(n, e) ==
    /\ e.event \in {"line", "exception"}
    /\ e.frame.f_lineno >= inject_python_tracer(n).USER_CODE_START
    /\ e.frame.f_lineno <= inject_python_tracer(n).USER_CODE_END

\* the traced programs: one or two events repeated for ever, at least one of
\* them a line or exception event of the traced range
EventLoops(n) ==
    { p \in SeqsUpTo(TraceEventsOf(n), 2) :
        \E k \in 1..Len(p) : Recordable(n, p[k]) }

TracerCode == { <<PipeCode[1]>>, <<PipeCode[1], PipeCode[2]>> }

Globals ==
    TracerGlobals(USER_CODE_START, USER_CODE_END, TRACE_DATA, STEP, CALL_STACK, settrace)

InitTracer ==
    /\ code \in TracerCode
    /\ raw_trace = <<>>
    /\ level = "medium"
    /\ hash_order = Order1
    /\ pc = "inject"
    /\ i = 0
    /\ outcome = "none"
    /\ IdleNorm /\ IdlePipe /\ IdleConc /\ IdleDiff /\ IdleContext /\ IdleDb
    /\ USER_CODE_START = 0
    /\ USER_CODE_END = 0
    /\ TRACE_DATA = <<>>
    /\ STEP = 0
    /\ CALL_STACK = 0
    /\ settrace = <<>>
    /\ frame_events \in EventLoops(Len(code))
    /\ event_index = 0
    /\ recorded_from = <<>>

tracerRest ==
    <<inputVars, i, outcome, normVars, pipeVars, concVars, diffVars, ctxVars, dbVars,
      frame_events>>

\* the assembled script sets the range, then calls sys.settrace(tracer)
InstallTracer ==
    /\ pc = "inject"
    /\ USER_CODE_START' = inject_python_tracer(Len(code)).USER_CODE_START
    /\ USER_CODE_END' = inject_python_tracer(Len(code)).USER_CODE_END
    /\ settrace' = <<"tracer">>
    /\ pc' = "tracing"
    /\ UNCHANGED <<tracerRest, TRACE_DATA, STEP, CALL_STACK, event_index, recorded_from>>

NextEvent == frame_events[(event_index % Len(frame_events)) + 1]

\* the interpreter calls the installed trace function with the next event
TraceEvent ==
    /\ pc = "tracing"
    /\ settrace # <<>>
    /\ LET g == tracer(Globals, NextEvent.frame, NextEvent.event) IN
          /\ TRACE_DATA' = g.TRACE_DATA
          /\ STEP' = g.STEP
          /\ CALL_STACK' = g.CALL_STACK
          /\ settrace' = g.settrace
          /\ recorded_from' =
                IF Len(g.TRACE_DATA) > Len(TRACE_DATA)
                THEN Append(recorded_from, <<NextEvent>>)
                ELSE recorded_from
    /\ event_index' = event_index + 1
    /\ UNCHANGED <<tracerRest, pc, USER_CODE_START, USER_CODE_END>>

\* the user code ends (normally or by an exception): the finally block appends
\* the final snapshot when anything was traced, then calls sys.settrace(None)
FinishTrace ==
    /\ pc = "tracing"
    /\ IF TRACE_DATA # <<>> /\ USER_CODE_START <= USER_CODE_END
       THEN /\ TRACE_DATA' = Append(TRACE_DATA, FinalEntry(Globals))
            /\ recorded_from' = Append(recorded_from, <<>>)
       ELSE UNCHANGED <<TRACE_DATA, recorded_from>>
    /\ settrace' = <<>>
    /\ pc' = "done"
    /\ UNCHANGED <<tracerRest, USER_CODE_START, USER_CODE_END, STEP, CALL_STACK, event_index>>

NextTracer == InstallTracer \/ TraceEvent \/ FinishTrace

SpecTracer == InitTracer /\ [][NextTracer]_vars

\* the entries of TRACE_DATA the tracer recorded (the final snapshot is the
\* harness's own)
TracerEntries == {k \in 1..Len(TRACE_DATA) : recorded_from[k] # <<>>}

C25_Counted ==
    /\ Len(recorded_from) = Len(TRACE_DATA)
    /\ Cardinality(TracerEntries) <= MAX_STEPS
    /\ STEP = Cardinality(TracerEntries)
    /\ TracerEntries = 1..STEP
    /\ \A k \in TracerEntries : TRACE_DATA[k].step = k

C25_EventAtLimit ==
    (event_index' # event_index /\ Len(TRACE_DATA) >= MAX_STEPS) =>
        /\ TRACE_DATA' = TRACE_DATA
        /\ STEP' = STEP
        /\ Recordable(Len(code), NextEvent) => settrace' = <<>>

\* C25: the tracer records at most MAX_STEPS entries, numbered 1, 2, ..., STEP
\* without gap or repeat; with MAX_STEPS entries recorded no event adds an
\* entry, and the next line or exception event of the traced range switches
\* tracing off
C25_AtMostMaxSteps == []C25_Counted /\ [][C25_EventAtLimit]_vars

\* MAX_STEPS entries are recorded and tracing has been switched off by the limit
C25_Witness ==
    /\ pc = "tracing"
    /\ STEP = MAX_STEPS
    /\ Len(TRACE_DATA) = MAX_STEPS
    /\ settrace = <<>>

\* what the whole harness leaves in TRACE_DATA: the final snapshot may be entry
\* MAX_STEPS + 1
C25_TraceLength == Len(TRACE_DATA) <= MAX_STEPS + 1

C25_FinalAfterLimit ==
    /\ pc = "done"
    /\ Len(TRACE_DATA) = MAX_STEPS + 1
    /\ TRACE_DATA[MAX_STEPS + 1].event = "final"

C26_LibraryEventRecorded ==
    \E k \in TracerEntries : recorded_from[k][1].frame.co_filename # "<string>"


-----------------------------------------------------------------------------
(* Replaying a StateDiff on the previous snapshot *)

\* the new value a list of changes records for a name
NewValueIn(changes, name) ==
    changes[CHOOSE k \in 1..Len(changes) : changes[k].name = name].new_value

\* the previous snapshot with the removed names deleted and the created and
\* modified names set to their recorded new values: its names and its values
ReplayedNames ==
    (PrevNames \ NamesOf(diff_out.removed))
        \cup NamesOf(diff_out.created) \cup NamesOf(diff_out.modified)

ReplayedValue(name) ==
    IF name \in NamesOf(diff_out.modified) THEN NewValueIn(diff_out.modified, name)
    ELSE IF name \in NamesOf(diff_out.created) THEN NewValueIn(diff_out.created, name)
    ELSE normalize_value(prev_vars[1].val[name])

\* C27: replaying the diff on the previous snapshot gives the current snapshot:
\* the same names, and for each name a value equal to the normalized current
\* value
C27_DiffReplaysToCurrent ==
    pc = "compute_diff_done" =>
        /\ ReplayedNames = CurrNames
        /\ \A name \in ReplayedNames :
              PyEq(ReplayedValue(name), normalize_value(curr_vars.val[name]))

\* a diff with a removed, a created and a modified name
C27_Witness ==
    /\ pc = "compute_diff_done"
    /\ diff_out.removed # <<>>
    /\ diff_out.created # <<>>
    /\ diff_out.modified # <<>>

\* a diff that leaves a name alone whose values are equal but not identical
C27_WitnessUnchanged ==
    /\ pc = "compute_diff_done"
    /\ prev_vars # <<>>
    /\ diff_out.created # <<>>
    /\ \E name \in (PrevNames \cap CurrNames) \ NamesOf(diff_out.modified) :
          prev_vars[1].val[name] # curr_vars.val[name]


-----------------------------------------------------------------------------
(* The pipeline run by processes whose string hashing differs: steps that  *)
(* stay on a line, and the order of the entries of a diff                  *)

RunRawSteps ==
    { RawStep(AllKeys, 1, 1, "main", Dict1("a", IntV(5)), "line", 0),
      RawStep(AllKeys, 2, 1, "main",
              MkDict(<<"a", "b", "c">>, [a |-> IntV(5), b |-> IntV(8), c |-> StrV(1)]),
              "line", 0),
      RawStep(AllKeys, 3, 2, "main", Dict1("b", ListV(<<IntV(1)>>)), "line", 0),
      RawStep(AllKeys, 4, 2, "main", Dict1("b", TupleV(<<IntV(1)>>)), "line", 0),
      RawStep(AllKeys \ {"variables"}, 5, 2, "main", EmptyDict, "line", 0),
      RawStep(AllKeys, 6, 2, "main", EmptyDict, "line", 0) }

\* hash_order is the order in which this process iterates a set of names
InitRuns ==
    /\ code \in {PipeCode}
    /\ raw_trace \in SeqsUpTo(RunRawSteps, MaxTrace)
    /\ level = "medium"
    /\ hash_order \in {Order1, Order2}
    /\ pc = "generate"
    /\ outcome = "none"
    /\ IdleNorm /\ IdlePipe /\ IdleConc /\ IdleDiff /\ IdleServices

SpecRuns == InitRuns /\ [][Next]_vars

DiffsComputed == processed_steps # <<>> /\ Len(diffs) = Len(processed_steps)

\* processed steps k-1 and k stand on the same line
StaysOnLine(k) == k > 1 /\ processed_steps[k].line = processed_steps[k - 1].line

\* C28: a retained step on the same line as the retained step before it has a
\* non-empty StateDiff
C28_SameLineHasChange ==
    DiffsComputed =>
        \A k \in 1..Len(processed_steps) : StaysOnLine(k) => has_changes(diffs[k])

\* a list replaced by an equal tuple on the same line: retained, no change
C28_ListThenTuple ==
    /\ DiffsComputed
    /\ \E k \in 1..Len(processed_steps) :
          /\ StaysOnLine(k)
          /\ ~has_changes(diffs[k])
          /\ processed_steps[k].variables.keys # <<>>
          /\ processed_steps[k].variables # processed_steps[k - 1].variables

\* the explanation of step k in a process iterating name sets in `order`
ExplanationUnder(k, order) ==
    generate_explanation(processed_steps[k],
                         compute_trace_diffs(processed_steps, order)[k],
                         concepts_list[k], KnowledgeOf(k), level)

\* C29: the result does not depend on the process: the created, modified and
\* removed lists, and the explanations built from them, are those of any
\* other run on the same source, trace, level and retrieval results
C29_SameInEveryProcess ==
    (pc = "done" /\ outcome = "returned") =>
        /\ diffs = compute_trace_diffs(processed_steps, Order1)
        /\ \A k \in 1..Len(enriched) :
              enriched[k].explanation = ExplanationUnder(k, Order1)

\* what does hold: every process reports the same changes, in some order
C29_SameChangesInEveryProcess ==
    (pc = "done" /\ outcome = "returned") =>
        \A k \in 1..Len(diffs) :
            LET d == compute_trace_diffs(processed_steps, Order1)[k] IN
            /\ Range(diffs[k].created) = Range(d.created)
            /\ Range(diffs[k].modified) = Range(d.modified)
            /\ Range(diffs[k].removed) = Range(d.removed)


-----------------------------------------------------------------------------
(* retriever.py: the cursor of retrieve, retrieve_with_metadata and        *)
(* retrieve_by_concept                                                      *)

MaxCalls == 3

RetrievalFunctions == {"retrieve", "retrieve_with_metadata", "retrieve_by_concept"}

\* a running call: the function, the statement it stands before, the cursor it
\* holds (0: none) and how it is going to end ("": not known yet)
DbCall(fn, at, cursor, ending) ==
    [fn |-> fn, at |-> at, cursor |-> cursor, ending |-> ending]

\* mutant: the cursor is closed on the returning paths only
ClosesCursor_on_return_only(ending) == ending # "raise"

\* finally: cursor.close(), however the try block was left
ClosesCursor(ending) == ending \in {"return rows", "return []", "raise"}

InitDb ==
    /\ code \in {PipeCode}
    /\ raw_trace = <<>>
    /\ level = "medium"
    /\ hash_order = Order1
    /\ pc = "retriever"
    /\ i = 0
    /\ outcome = "none"
    /\ IdleNorm /\ IdlePipe /\ IdleConc /\ IdleDiff /\ IdleContext /\ IdleTracer
    /\ cursors = <<>>
    /\ db_call = <<>>
    /\ db_log = <<>>

dbRest ==
    <<inputVars, pc, i, outcome, normVars, pipeVars, concVars, diffVars, ctxVars, tracerVars>>

\* one of the three functions is called
CallRetrieval ==
    /\ db_call = <<>>
    /\ Len(db_log) < MaxCalls
    /\ \E fn \in RetrievalFunctions : db_call' = <<DbCall(fn, "get_cursor", 0, "")>>
    /\ UNCHANGED <<dbRest, cursors, db_log>>

\* cursor = get_cursor(), before the try block: a new cursor, or the
\* connection fails and the exception leaves the function
GetCursor ==
    /\ db_call # <<>>
    /\ db_call[1].at = "get_cursor"
    /\ \/ /\ cursors' = Append(cursors, 0)
          /\ db_call' = <<DbCall(db_call[1].fn, "execute", Len(cursors) + 1, "")>>
          /\ UNCHANGED db_log
       \/ /\ db_log' = Append(db_log, [fn |-> db_call[1].fn, cursor |-> 0, ending |-> "raise"])
          /\ db_call' = <<>>
          /\ UNCHANGED cursors
    /\ UNCHANGED dbRest

\* cursor.execute(similarity_query, params)
Execute ==
    /\ db_call # <<>>
    /\ db_call[1].at = "execute"
    /\ \/ db_call' = <<[db_call[1] EXCEPT !.at = "fetchall"]>>
       \/ db_call' = <<[db_call[1] EXCEPT !.at = "finally", !.ending = "raise"]>>
    /\ UNCHANGED <<dbRest, cursors, db_log>>

\* results = cursor.fetchall(); if not results: return []
Fetchall ==
    /\ db_call # <<>>
    /\ db_call[1].at = "fetchall"
    /\ \/ db_call' = <<[db_call[1] EXCEPT !.at = "rows"]>>
       \/ db_call' = <<[db_call[1] EXCEPT !.at = "finally", !.ending = "return []"]>>
       \/ db_call' = <<[db_call[1] EXCEPT !.at = "finally", !.ending = "raise"]>>
    /\ UNCHANGED <<dbRest, cursors, db_log>>

\* the rows are turned into the result and logged; a row that cannot be
\* formatted or converted raises
BuildResult ==
    /\ db_call # <<>>
    /\ db_call[1].at = "rows"
    /\ \/ db_call' = <<[db_call[1] EXCEPT !.at = "finally", !.ending = "return rows"]>>
       \/ db_call' = <<[db_call[1] EXCEPT !.at = "finally", !.ending = "raise"]>>
    /\ UNCHANGED <<dbRest, cursors, db_log>>

\* finally: cursor.close()
Finally ==
    /\ db_call # <<>>
    /\ db_call[1].at = "finally"
    /\ cursors' = IF ClosesCursor(db_call[1].ending)
                  THEN [cursors EXCEPT ![db_call[1].cursor] = @ + 1]
                  ELSE cursors
    /\ db_call' = <<[db_call[1] EXCEPT !.at = "exit"]>>
    /\ UNCHANGED <<dbRest, db_log>>

\* the function returns its result or re-raises the exception
LeaveRetrieval ==
    /\ db_call # <<>>
    /\ db_call[1].at = "exit"
    /\ db_log' = Append(db_log, [fn |-> db_call[1].fn, cursor |-> db_call[1].cursor,
                                 ending |-> db_call[1].ending])
    /\ db_call' = <<>>
    /\ UNCHANGED <<dbRest, cursors>>

NextDb ==
    \/ CallRetrieval
    \/ GetCursor
    \/ Execute
    \/ Fetchall
    \/ BuildResult
    \/ Finally
    \/ LeaveRetrieval

SpecDb == InitDb /\ [][NextDb]_vars

\* the cursor of the running call, as long as the call has not closed it
HeldCursors ==
    IF db_call # <<>> /\ db_call[1].cursor # 0 /\ db_call[1].at # "exit"
    THEN {db_call[1].cursor} ELSE {}

\* C30: a cursor is never closed twice; every cursor but the one the running
\* call still works with has been closed exactly once, so each call has closed
\* its cursor when it returns or raises, whatever its path, and no cursor is
\* open between calls
C30_CursorClosedOnce ==
    /\ \A c \in 1..Len(cursors) :
          cursors[c] = IF c \in HeldCursors THEN 0 ELSE 1
    /\ \A k \in 1..Len(db_log) :
          db_log[k].cursor # 0 => cursors[db_log[k].cursor] = 1
    /\ \A k \in 1..Len(db_log) :
          db_log[k].cursor = 0 => db_log[k].ending = "raise"

\* three calls have ended, one with rows, one with no rows, one with a query
\* error, and each has closed its cursor
C30_Witness ==
    /\ db_call = <<>>
    /\ Len(cursors) = 3
    /\ {db_log[k].ending : k \in 1..Len(db_log)} = {"return rows", "return []", "raise"}
    /\ {db_log[k].fn : k \in 1..Len(db_log)} = RetrievalFunctions
    /\ \A k \in 1..Len(db_log) : db_log[k].cursor # 0

====
